---- MODULE Spec2Model ----
(***************************************************************************)
(* State-machine model of the AdministerBack REST layer: the relational    *)
(* store (bank transactions, allocations, invoices, payments, settlements),*)
(* the per-request database session (withUser), the role gate and the      *)
(* fund-scope gate, the transaction endpoints and the CSV importer.        *)
(* One action per HTTP handler; a handler runs to completion (one request  *)
(* is one unit of work), a store failure is an input of the request.      *)
(***************************************************************************)
EXTENDS Integers, Sequences, FiniteSets, TLC

VARIABLES bank_transactions, transaction_allocations, next_id,
          facturas, payments, liquidaciones, liquidacion_lines, next_ent,
          res, arg, out

vars == <<bank_transactions, transaction_allocations, next_id,
          facturas, payments, liquidaciones, liquidacion_lines, next_ent,
          res, arg, out>>

(***************************************************************************)
(* Bounds of the model.                                                    *)
(***************************************************************************)
MaxTx == 1
MaxAllocs == 2
MaxRows == 2
MaxAmountLen == 4
MaxEntities == 2
MaxLiq == 1

(***************************************************************************)
(* Ratios and amounts.  A ratio is an integer number of 1e-9 units, so     *)
(* that the tolerance of the sum check is one unit.                        *)
(***************************************************************************)
ONE == 1000000000
TolNano == 1
Half == ONE \div 2

NoFund == "none"

Funds == {"fA", "fB"}

(***************************************************************************)
(* Roles, users and grants (app.roles, app.user_roles,                     *)
(* app.role_fund_access).  No endpoint under src/ writes role_fund_access; *)
(* the tables are fixed data of the store.                                 *)
(***************************************************************************)
RoleNames == {"admin", "owner", "Admin", "manager", "editor", "viewer"}
Users == {"uAdmin", "uOwner", "uCaps", "uMgr", "uEd", "uView"}

user_roles ==
  [u \in Users |->
     CASE u = "uAdmin" -> {"admin"}
       [] u = "uOwner" -> {"owner"}
       [] u = "uCaps"  -> {"Admin"}
       [] u = "uMgr"   -> {"manager"}
       [] u = "uEd"    -> {"editor"}
       [] u = "uView"  -> {"viewer"}]

role_fund_access ==
  { [role |-> "manager", fund_id |-> "fA", scope |-> "admin"],
    [role |-> "manager", fund_id |-> "fB", scope |-> "write"],
    [role |-> "editor",  fund_id |-> "fA", scope |-> "write"],
    [role |-> "editor",  fund_id |-> "fB", scope |-> "read"],
    [role |-> "viewer",  fund_id |-> "fA", scope |-> "read"] }

\* SQL lower() on the role names of the store
lower(name) == IF name = "Admin" THEN "admin" ELSE name

ScopeRank(s) == CASE s = "read" -> 1 [] s = "write" -> 2 [] s = "admin" -> 3

\* The grants a user holds through its roles (user_roles join role_fund_access)
GrantsOf(u) == { g \in role_fund_access : g.role \in user_roles[u] }

\* app.v_effective_fund_access: (user, fund) -> highest scope granted through
\* any role the user holds
v_effective_fund_access ==
  UNION { { [user_id |-> u, fund_id |-> g.fund_id, scope |-> g.scope] :
              g \in { x \in GrantsOf(u) :
                        \A y \in GrantsOf(u) :
                          y.fund_id = x.fund_id
                            => ScopeRank(y.scope) <= ScopeRank(x.scope) } } :
          u \in Users }

\* select exists (... lower(r.name) in ('admin','owner'))
isAdmin(userId) ==
  \E r \in user_roles[userId] : lower(r) \in {"admin", "owner"}

(***************************************************************************)
(* The store as one value, and a pooled connection on it.  `durable` is    *)
(* what is committed, `work` what the connection sees; outside a           *)
(* transaction block every statement commits by itself.                    *)
(***************************************************************************)
StoreErr == 500

\* the empty store; tx and al are app.bank_transactions and
\* app.transaction_allocations, lineas the line and comment tables of the
\* settlements, next and next_ent the ids not yet given out
EmptyDb ==
  [tx |-> {}, al |-> <<>>, next |-> 1,
   facturas |-> {}, payments |-> {}, liquidaciones |-> {}, lineas |-> {},
   next_ent |-> 1]

Connect(d) ==
  [durable |-> d, work |-> d, inTx |-> FALSE, aborted |-> FALSE,
   user |-> "none", committed |-> FALSE, rolledback |-> FALSE]

\* a session that never opens a block: every statement commits by itself
QBegin_Autocommit(c) == c

\* 'begin': opens a block; inside a block it only warns
QBegin(c) == IF c.inTx THEN c ELSE [c EXCEPT !.inTx = TRUE]

\* 'commit': makes the block durable (an aborted block is rolled back);
\* outside a block it only warns
QCommit(c) ==
  IF ~c.inTx THEN c
  ELSE IF c.aborted
       THEN [c EXCEPT !.work = c.durable, !.inTx = FALSE, !.aborted = FALSE,
                      !.rolledback = TRUE]
       ELSE [c EXCEPT !.durable = c.work, !.inTx = FALSE, !.committed = TRUE]

\* a rollback that keeps the work of the block
QRollback_Keeps(c) ==
  IF ~c.inTx THEN c
  ELSE [c EXCEPT !.durable = c.work, !.inTx = FALSE, !.aborted = FALSE,
                 !.committed = TRUE]

\* 'rollback': discards the block; outside a block it only warns
QRollback(c) ==
  IF ~c.inTx THEN c
  ELSE [c EXCEPT !.work = c.durable, !.inTx = FALSE, !.aborted = FALSE,
                 !.rolledback = TRUE]

\* select app.set_current_user($1)
SetCurrentUser(c, userId) == [c EXCEPT !.user = userId]

\* a data statement that commits by itself even inside a block
Write_Autocommit(c, d) == [c EXCEPT !.work = d, !.durable = d]

\* a data statement that changes the store to d
Write(c, d) ==
  IF c.inTx THEN [c EXCEPT !.work = d]
  ELSE [c EXCEPT !.work = d, !.durable = d]

\* a statement that failed: inside a block the block is aborted
Failed(c) == IF c.inTx THEN [c EXCEPT !.aborted = TRUE] ELSE c

(***************************************************************************)
(* A run of a handler on a connection: the statements issued so far (n),   *)
(* the error thrown (0: none, else the status the error carries, 500 for   *)
(* an error without status) and the value returned.  failAt is the number  *)
(* of the statement of the request that the store fails (0: none).         *)
(***************************************************************************)
Run(c) == [conn |-> c, n |-> 0, err |-> 0, out |-> 0]

Throw(rs, status) == [rs EXCEPT !.err = status]

\* c.query(...): statement number n+1; it fails when the store is made to
\* fail it, when the block is already aborted or when a constraint (ok)
\* is violated, and then the query throws
Query(rs, failAt, ok, next) ==
  IF rs.err # 0 THEN rs
  ELSE IF rs.n + 1 = failAt \/ rs.conn.aborted \/ ~ok
       THEN [rs EXCEPT !.conn = Failed(rs.conn), !.n = rs.n + 1, !.err = StoreErr]
       ELSE [rs EXCEPT !.conn = next, !.n = rs.n + 1]

\* the value of failAt for a request whose pool.connect() throws
ConnectFails == 0 - 1

\* the head of withUser: pool.connect(), begin, set_current_user; n0 is the
\* number of statements the request has issued before.  When pool.connect()
\* throws no statement is issued
Session(d, userId, failAt, n0) ==
  LET begin(r) == Query(r, failAt, TRUE, QBegin(r.conn))
      set_current_user(r) == Query(r, failAt, TRUE, SetCurrentUser(r.conn, userId))
      connect(r) == IF failAt = ConnectFails THEN Throw(r, StoreErr) ELSE r
  IN  set_current_user(begin(connect([Run(Connect(d)) EXCEPT !.n = n0])))

\* withUser(userId, fn): begin, set_current_user, fn, commit; rollback and
\* rethrow on any error; the connection is released on every path.  ran is
\* the run of fn on Session(d, userId, failAt, n0); fn is not called when
\* the head failed
withUser(d, userId, failAt, n0, ran) ==
  LET fn(head) == IF head.err # 0 THEN head ELSE ran
      commit(r) == Query(r, failAt, TRUE, QCommit(r.conn))
      catch(r) == IF r.err # 0 THEN [r EXCEPT !.conn = QRollback(r.conn)] ELSE r
  IN  catch(commit(fn(Session(d, userId, failAt, n0))))

(***************************************************************************)
(* Gates (src/middleware/requireRole.ts, src/permissions.ts)               *)
(***************************************************************************)
\* a gate that calls next() when its session or its query fails
requireRole_NextOnError(d, userId, roleName, failAt) ==
  LET rowCount(q) == IF q.err # 0 THEN q
                     ELSE [q EXCEPT !.out = IF roleName \in user_roles[userId]
                                            THEN 1 ELSE 0]
      fn(rs) == rowCount(Query(rs, failAt, TRUE, rs.conn))
      answer(r) ==
        [run |-> [r EXCEPT !.err = 0],
         status |-> IF r.err # 0 THEN 0 ELSE IF r.out = 0 THEN 403 ELSE 0]
  IN  answer(withUser(d, userId, failAt, 0, fn(Session(d, userId, failAt, 0))))

\* requireRole(roleName): the membership query under withUser; 0 stands for
\* next(), otherwise the status of the response
requireRole(d, userId, roleName, failAt) ==
  LET rowCount(q) == IF q.err # 0 THEN q
                     ELSE [q EXCEPT !.out = IF roleName \in user_roles[userId]
                                            THEN 1 ELSE 0]
      fn(rs) == rowCount(Query(rs, failAt, TRUE, rs.conn))
      answer(r) ==
        [run |-> r,
         status |-> IF r.err # 0 THEN 500 ELSE IF r.out = 0 THEN 403 ELSE 0]
  IN  answer(withUser(d, userId, failAt, 0, fn(Session(d, userId, failAt, 0))))

\* a gate that is satisfied by write scope on one of the funds
assertWriteForFunds_AnyFund(rs, userId, fundIds, failAt) ==
  IF rs.err # 0 \/ fundIds = {} THEN rs
  ELSE LET cnt == Cardinality({ f \in fundIds :
                    \E a \in v_effective_fund_access :
                      /\ a.user_id = userId
                      /\ a.fund_id = f
                      /\ a.scope \in {"write", "admin"} })
           check(q) == IF q.err # 0 THEN q
                       ELSE IF cnt > 0 THEN q ELSE Throw(q, 403)
       IN  check(Query(rs, failAt, TRUE, rs.conn))

\* assertWriteForFunds(client, userId, fundIds)
assertWriteForFunds(rs, userId, fundIds, failAt) ==
  IF rs.err # 0 \/ fundIds = {} THEN rs
  ELSE LET cnt == Cardinality({ f \in fundIds :
                    \E a \in v_effective_fund_access :
                      /\ a.user_id = userId
                      /\ a.fund_id = f
                      /\ a.scope \in {"write", "admin"} })
           check(q) == IF q.err # 0 THEN q
                       ELSE IF cnt = Cardinality(fundIds) THEN q ELSE Throw(q, 403)
       IN  check(Query(rs, failAt, TRUE, rs.conn))

(***************************************************************************)
(* Numbers and strings.  A string is a sequence of one-character strings.  *)
(* A number is num / 10^scale with no trailing zero in its fraction; the   *)
(* amounts of the model have few digits, so the doubles of the program     *)
(* are the decimals they print as.  NoNumber stands for null, undefined    *)
(* and NaN.                                                                *)
(***************************************************************************)
Digits == {"0", "1", "2", "3", "4", "5", "6", "7", "8", "9"}

DigitVal(c) ==
  CASE c = "0" -> 0 [] c = "1" -> 1 [] c = "2" -> 2 [] c = "3" -> 3
    [] c = "4" -> 4 [] c = "5" -> 5 [] c = "6" -> 6 [] c = "7" -> 7
    [] c = "8" -> 8 [] c = "9" -> 9

NoNumber == [num |-> 0, scale |-> -1]

RECURSIVE Normal(_, _)
Normal(num, scale) ==
  IF scale > 0 /\ num % 10 = 0 THEN Normal(num \div 10, scale - 1)
  ELSE [num |-> num, scale |-> scale]

Dec(n) == [num |-> n, scale |-> 0]

\* a test that only refuses zero and what is not a number
Positive_AnySign(x) == x # NoNumber /\ x.num # 0

\* z.number().positive()
Positive(x) == x # NoNumber /\ x.num > 0

Abs(x) == IF x < 0 THEN -x ELSE x

\* Math.abs on a number
MathAbs(x) == [x EXCEPT !.num = Abs(x.num)]

RECURSIVE DigitsToNat(_)
DigitsToNat(s) ==
  IF s = <<>> THEN 0
  ELSE 10 * DigitsToNat(SubSeq(s, 1, Len(s) - 1)) + DigitVal(s[Len(s)])

Has(s, c) == \E i \in 1..Len(s) : s[i] = c

\* s.lastIndexOf(c): 0-based, -1 when absent
lastIndexOf(s, c) ==
  IF Has(s, c) THEN (CHOOSE i \in 1..Len(s) :
                       s[i] = c /\ \A j \in (i + 1)..Len(s) : s[j] # c) - 1
  ELSE -1

\* s.replace(/c/g, '')
RemoveAll(s, c) == SelectSeq(s, LAMBDA x : x # c)

\* s.replace(c, d): the first occurrence only
ReplaceFirst(s, c, d) ==
  IF ~Has(s, c) THEN s
  ELSE LET i == CHOOSE k \in 1..Len(s) : s[k] = c /\ \A j \in 1..(k - 1) : s[j] # c
       IN  [s EXCEPT ![i] = d]

RECURSIVE Trim(_)
\* String.prototype.trim
Trim(s) ==
  IF s = <<>> THEN s
  ELSE IF Head(s) = " " THEN Trim(Tail(s))
  ELSE IF s[Len(s)] = " " THEN Trim(SubSeq(s, 1, Len(s) - 1))
  ELSE s

\* Number(s) for a string of digits, '.', ',' and '-': the empty string is 0,
\* a decimal literal with an optional sign is its value, anything else NaN
Number(s) ==
  IF s = <<>> THEN Dec(0)
  ELSE LET body == IF Head(s) = "-" THEN Tail(s) ELSE s
           dots == { i \in 1..Len(body) : body[i] = "." }
           point == IF dots = {} THEN Len(body) + 1 ELSE CHOOSE i \in dots : TRUE
           int == SubSeq(body, 1, point - 1)
           frac == SubSeq(body, point + 1, Len(body))
           mag == Normal(DigitsToNat(int \o frac), Len(frac))
       IN  IF /\ \A i \in 1..Len(body) : body[i] \in Digits \cup {"."}
              /\ Cardinality(dots) <= 1
              /\ Len(int) + Len(frac) > 0
           THEN IF Head(s) = "-" THEN [mag EXCEPT !.num = -mag.num] ELSE mag
           ELSE NoNumber

\* a parser for which '.' is the decimal separator whenever both are present
parseAmountLoose_DotWins(v) ==
  IF Trim(v) = <<>> THEN NoNumber
  ELSE LET s == SelectSeq(Trim(v), LAMBDA c : c \in Digits \cup {".", ",", "-"})
       IN  IF Has(s, ",") /\ ~Has(s, ".")
           THEN Number(ReplaceFirst(RemoveAll(s, "."), ",", "."))
           ELSE Number(RemoveAll(s, ","))

\* parseAmountLoose(v) for a string v
parseAmountLoose(v) ==
  IF Trim(v) = <<>> THEN NoNumber
  ELSE LET s == SelectSeq(Trim(v), LAMBDA c : c \in Digits \cup {".", ",", "-"})
           hasDot == Has(s, ".")
           hasComma == Has(s, ",")
       IN  IF hasDot /\ hasComma
           THEN IF lastIndexOf(s, ",") > lastIndexOf(s, ".")
                THEN Number(ReplaceFirst(RemoveAll(s, "."), ",", "."))
                ELSE Number(RemoveAll(s, ","))
           ELSE IF hasComma
                THEN Number(ReplaceFirst(RemoveAll(s, "."), ",", "."))
                ELSE Number(RemoveAll(s, ","))

(***************************************************************************)
(* Transactions (src/routes/transactions.ts)                               *)
(***************************************************************************)
NoType == "none"
TxIds == 1..MaxTx
TxTypes == {"credit", "debit"}

RECURSIVE SumRatios(_)
\* allocations.reduce((acc, a) => acc + Number(a.ratio), 0)
SumRatios(allocations) ==
  IF allocations = <<>> THEN 0
  ELSE SumRatios(SubSeq(allocations, 1, Len(allocations) - 1))
         + allocations[Len(allocations)].ratio

\* a sum test that lets every set through
RatioSumRejected_Never(allocations) == FALSE

\* Math.abs(sum - 1) > 1e-9 in IEEE double arithmetic.  Away from the
\* tolerance the doubles decide as the decimals do.  A decimal deviation of
\* exactly 1e-9 is decided by the rounding of the operands: the lone ratio
\* 0.999999999 is the double above it and passes (1 - 0.999999999 evaluates
\* to 9.99999971718e-10), while 1.000000001 alone and 0.5 + 0.499999999,
\* 0.5 + 0.500000001 in either order evaluate to 1.000000082740371e-9.
RatioSumRejected(allocations) ==
  LET sum == SumRatios(allocations)
  IN  IF Abs(sum - ONE) = TolNano
      THEN ~(Len(allocations) = 1 /\ allocations[1].ratio = ONE - TolNano)
      ELSE Abs(sum - ONE) > TolNano

\* TxInput (zod): amount positive, type credit|debit, ratios positive
TxInputValid(body) ==
  /\ Positive(body.amount)
  /\ body.type \in TxTypes
  /\ \A i \in 1..Len(body.allocations) : body.allocations[i].ratio > 0

\* TxInput.partial(): every field optional
TxPartialValid(body) ==
  /\ body.amount = NoNumber \/ Positive(body.amount)
  /\ body.type = NoType \/ body.type \in TxTypes
  /\ \A i \in 1..Len(body.allocations) : body.allocations[i].ratio > 0

\* [...new Set(allocations.map((a) => a.fund_id))]
FundIdsOf(allocations) ==
  { allocations[i].fund_id : i \in 1..Len(allocations) }

\* insert into app.bank_transactions ... returning id
InsertTx(d, amount, type) ==
  [d EXCEPT !.tx = d.tx \cup {[id |-> d.next, amount |-> amount, type |-> type]},
            !.next = d.next + 1]

\* insert into app.transaction_allocations (transaction_id, fund_id, ratio)
InsertAlloc(d, txId, a) ==
  [d EXCEPT !.al = Append(d.al, [transaction_id |-> txId,
                                 fund_id |-> a.fund_id, ratio |-> a.ratio])]

\* the allocation row references a stored transaction (foreign key)
HasTx(d, txId) == \E t \in d.tx : t.id = txId

RECURSIVE InsertAllocs(_, _, _, _, _)
\* for (const a of allocations) await c.query(insert ...)
InsertAllocs(rs, failAt, txId, allocations, i) ==
  IF i > Len(allocations) THEN rs
  ELSE InsertAllocs(
         Query(rs, failAt, HasTx(rs.conn.work, txId),
               Write(rs.conn, InsertAlloc(rs.conn.work, txId, allocations[i]))),
         failAt, txId, allocations, i + 1)

\* The answer to an error that leaves an async handler: the status the
\* error carries (500 for an error without one).  No error middleware is
\* registered in src/index.ts; this is the framework's default handler.
ErrorResponse(err) == err

\* The response of a request, with what the request was about: the caller,
\* the target id, the funds of its effective allocation set, whether its
\* body passed the handler's validation, whether a statement failed and
\* how many were issued, what the session did (commit, rollback), and for
\* the importer the dry_run parameter, the rows of the file, the reported
\* errors and the number of valid rows, and for a read the rows returned.
Resp(op, userId, status, id, funds, validated, r) ==
  [op |-> op, user |-> userId, status |-> status, id |-> id, funds |-> funds,
   validated |-> validated,
   store_failed |-> r.err = StoreErr, stmts |-> r.n,
   committed |-> r.conn.committed, rolledback |-> r.conn.rolledback,
   dry_run |-> "none", file_rows |-> <<>>, errors |-> <<>>, valid |-> 0,
   rows |-> <<>>]

\* a request answered before any session was opened
NoRun(d) == Run(Connect(d))

\* an empty set that falls back to a whole allocation to the first fund
EffectiveAllocations_Default(body) ==
  IF body.has_allocations /\ body.allocations # <<>> THEN body.allocations
  ELSE <<[fund_id |-> IF body.fund_id # NoFund THEN body.fund_id ELSE "fA",
          ratio |-> ONE]>>

\* POST: "construir allocations"
EffectiveAllocations(body) ==
  LET allocations == IF body.has_allocations THEN body.allocations ELSE <<>>
  IN  IF allocations = <<>> /\ body.fund_id # NoFund
      THEN <<[fund_id |-> body.fund_id, ratio |-> ONE]>>
      ELSE allocations

\* router.post('/'): the store and the response after the request
PostTx(d, userId, body, failAt) ==
  LET allocations == EffectiveAllocations(body)
      fundIds == FundIdsOf(allocations)
      returning(a, txId) == IF a.err # 0 THEN a ELSE [a EXCEPT !.out = txId]
      insertTx(g) ==
        Query(g, failAt, TRUE,
              Write(g.conn, InsertTx(g.conn.work, body.amount, body.type)))
      inserts(g) ==
        returning(InsertAllocs(insertTx(g), failAt, g.conn.work.next, allocations, 1),
                  g.conn.work.next)
      fn(rs) == inserts(assertWriteForFunds(rs, userId, fundIds, failAt))
      answer(r) ==
        [db |-> r.conn.durable,
         res |-> Resp("PostTx", userId,
                      IF r.err # 0 THEN ErrorResponse(r.err) ELSE 201,
                      r.out, fundIds, TRUE, r)]
  IN  IF ~TxInputValid(body)
      THEN [db |-> d, res |-> Resp("PostTx", userId, ErrorResponse(400), 0, {}, FALSE, NoRun(d))]
      ELSE IF allocations = <<>>
      THEN [db |-> d, res |-> Resp("PostTx", userId, ErrorResponse(400), 0, {}, FALSE, NoRun(d))]
      ELSE IF RatioSumRejected(allocations)
      THEN [db |-> d, res |-> Resp("PostTx", userId, ErrorResponse(400), 0, fundIds, FALSE,
                              NoRun(d))]
      ELSE answer(withUser(d, userId, failAt, 0, fn(Session(d, userId, failAt, 0))))

\* update app.bank_transactions set amount = coalesce($5, amount), ... where id = $1
UpdateTx(d, txId, body) ==
  [d EXCEPT !.tx = { IF t.id = txId
                     THEN [t EXCEPT !.amount = IF body.amount = NoNumber THEN @
                                               ELSE body.amount,
                                    !.type = IF body.type = NoType THEN @
                                             ELSE body.type]
                     ELSE t : t \in d.tx }]

\* a replacement that leaves the old rows in place
DeleteAllocs_Keep(d, txId) == d

\* delete from app.transaction_allocations where transaction_id = $1
DeleteAllocs(d, txId) ==
  [d EXCEPT !.al = SelectSeq(d.al, LAMBDA a : a.transaction_id # txId)]

\* PATCH: "preparar allocations si vinieron"; <<>> stands for undefined
NewAlloc(body) ==
  IF body.fund_id # NoFund THEN <<[fund_id |-> body.fund_id, ratio |-> ONE]>>
  ELSE IF body.has_allocations THEN body.allocations
  ELSE <<>>

\* router.patch('/:id')
PatchTx(d, userId, txId, body, failAt) ==
  LET newAlloc == NewAlloc(body)
      fundIds == FundIdsOf(newAlloc)
      rejected == /\ body.fund_id = NoFund
                  /\ body.has_allocations
                  /\ \/ body.allocations = <<>>
                     \/ RatioSumRejected(body.allocations)
      update(g) ==
        Query(g, failAt, TRUE, Write(g.conn, UpdateTx(g.conn.work, txId, body)))
      replace(u) ==
        IF newAlloc = <<>> THEN u
        ELSE Query(u, failAt, TRUE, Write(u.conn, DeleteAllocs(u.conn.work, txId)))
      fn(rs) ==
        IF rejected THEN Throw(rs, 400)
        ELSE InsertAllocs(
               replace(update(assertWriteForFunds(rs, userId, fundIds, failAt))),
               failAt, txId, newAlloc, 1)
      answer(r) ==
        [db |-> r.conn.durable,
         res |-> Resp("PatchTx", userId,
                      IF r.err # 0 THEN ErrorResponse(r.err) ELSE 200,
                      txId, fundIds, ~rejected, r)]
  IN  IF ~TxPartialValid(body)
      THEN [db |-> d, res |-> Resp("PatchTx", userId, ErrorResponse(400), txId, {}, FALSE,
                              NoRun(d))]
      ELSE answer(withUser(d, userId, failAt, 0, fn(Session(d, userId, failAt, 0))))

\* the allocation rows are a dependent child set: they go with their
\* transaction
CascadeAllocations(d, txId) ==
  [d EXCEPT !.al = SelectSeq(d.al, LAMBDA a : a.transaction_id # txId)]

\* delete from app.bank_transactions where id = $1 returning id
DeleteTxRow(d, txId) ==
  CascadeAllocations([d EXCEPT !.tx = { t \in d.tx : t.id # txId }], txId)

\* router.delete('/:id', requireRole('admin'), ...)
DeleteTx(d, userId, txId, failAt) ==
  LET catch(t) == IF t.err # 0 THEN [t EXCEPT !.conn = QRollback(t.conn)] ELSE t
      commit(q, rowCount) ==
        IF q.err # 0 THEN q
        ELSE IF rowCount = 0 THEN Throw(q, 404)
        ELSE Query(q, failAt, TRUE, QCommit(q.conn))
      delete(b) ==
        commit(Query(b, failAt, TRUE, Write(b.conn, DeleteTxRow(b.conn.work, txId))),
               Cardinality({ t \in b.conn.work.tx : t.id = txId }))
      fn(rs) == catch(delete(Query(rs, failAt, TRUE, QBegin(rs.conn))))
      answer(r) ==
        [db |-> r.conn.durable,
         res |-> Resp("DeleteTx", userId,
                      IF r.err # 0 THEN ErrorResponse(r.err) ELSE 204,
                      txId, {}, TRUE, r)]
      handler(gate) ==
        IF gate.status # 0
        THEN [db |-> gate.run.conn.durable,
              res |-> Resp("DeleteTx", userId, gate.status, txId, {}, TRUE, gate.run)]
        ELSE answer(withUser(d, userId, failAt, gate.run.n,
                             fn(Session(d, userId, failAt, gate.run.n))))
  IN  handler(requireRole(d, userId, "admin", failAt))

(***************************************************************************)
(* CSV import (src/routes/transactions_import.ts)                          *)
(***************************************************************************)
\* String.prototype.toLowerCase on the type column
toLowerCase(t) ==
  CASE t = "DEBIT" -> "debit" [] t = "Credit" -> "credit" [] OTHER -> t

\* Row (zod) on a normalised row: the paths that fail, in schema order
RowIssues(raw) ==
  LET amount == parseAmountLoose(raw.amount)
  IN  (IF Positive(amount) THEN <<>> ELSE <<"amount">>)
      \o (IF toLowerCase(raw.type) \in TxTypes THEN <<>> ELSE <<"type">>)
      \o (IF raw.fund_id \in Funds THEN <<>> ELSE <<"fund_id">>)

\* the parsed row (parsed.data)
RowData(raw) ==
  [amount |-> parseAmountLoose(raw.amount), type |-> toLowerCase(raw.type),
   fund_id |-> raw.fund_id]

RECURSIVE ValidRows(_)
\* rows: the rows that parse, in file order
ValidRows(rawRows) ==
  IF rawRows = <<>> THEN <<>>
  ELSE LET raw == rawRows[Len(rawRows)]
           before == ValidRows(SubSeq(rawRows, 1, Len(rawRows) - 1))
       IN  IF RowIssues(raw) = <<>> THEN Append(before, RowData(raw)) ELSE before

\* an error entry that carries the 0-based position of the row
LineOf_Position(i) == i

\* index: i + 2 (the header is line 1, i is the 0-based position of the row)
LineOf(i) == i + 2

RECURSIVE RowErrors(_)
\* errors: { index: i + 2, error: msg } for every row that does not parse
RowErrors(rawRows) ==
  IF rawRows = <<>> THEN <<>>
  ELSE LET raw == rawRows[Len(rawRows)]
           before == RowErrors(SubSeq(rawRows, 1, Len(rawRows) - 1))
       IN  IF RowIssues(raw) = <<>> THEN before
           ELSE Append(before, [index |-> LineOf(Len(rawRows) - 1),
                                error |-> RowIssues(raw)])

RECURSIVE InsertRows(_, _, _, _)
\* for (const r of rows) { insert transaction; insert allocation 1.0 }
InsertRows(rs, failAt, rows, i) ==
  IF i > Len(rows) THEN rs
  ELSE LET r == rows[i]
           txId == rs.conn.work.next
           insertAlloc(t) ==
             Query(t, failAt, HasTx(t.conn.work, txId),
                   Write(t.conn, InsertAlloc(t.conn.work, txId,
                                             [fund_id |-> r.fund_id, ratio |-> ONE])))
       IN  InsertRows(
             insertAlloc(Query(rs, failAt, TRUE,
                               Write(rs.conn, InsertTx(rs.conn.work, MathAbs(r.amount),
                                                       r.type)))),
             failAt, rows, i + 1)

RawRows ==
  { [amount |-> <<"1">>, type |-> "credit", fund_id |-> "fA"],
    [amount |-> <<"2", ",", "0">>, type |-> "DEBIT", fund_id |-> "fB"],
    [amount |-> <<"-", "1">>, type |-> "debit", fund_id |-> "fA"],
    [amount |-> <<"$">>, type |-> "transfer", fund_id |-> "bad"] }

CsvFiles ==
  { [has_file |-> TRUE, rows |-> rows] :
      rows \in UNION { [1..n -> RawRows] : n \in 0..MaxRows } }
    \cup { [has_file |-> FALSE, rows |-> <<>>] }

\* rows and errors of every file of the model, computed once
RowsOf == [f \in CsvFiles |-> ValidRows(f.rows)]
ErrorsOf == [f \in CsvFiles |-> RowErrors(f.rows)]

\* a flag that is never read
isDryRun_Never(param) == FALSE

\* String(req.query.dry_run ?? '0') === '1'
isDryRun(param) == (IF param = "none" THEN "0" ELSE param) = "1"

\* router.post('/transactions/import')
ImportCsv(d, userId, dry_run, file, failAt) ==
  LET dryRun == isDryRun(dry_run)
      rows == RowsOf[file]
      errors == ErrorsOf[file]
      catch(c) == IF c.err # 0 THEN [c EXCEPT !.conn = QRollback(c.conn)] ELSE c
      commit(l) == Query(l, failAt, TRUE, QCommit(l.conn))
      fn(rs) ==
        catch(commit(InsertRows(Query(rs, failAt, TRUE, QBegin(rs.conn)),
                                failAt, rows, 1)))
      answer(status, run) ==
        [Resp("ImportCsv", userId, status, 0, {}, errors = <<>>, run)
           EXCEPT !.dry_run = dry_run, !.file_rows = file.rows,
                  !.errors = errors, !.valid = Len(rows)]
      saved(r) ==
        [db |-> r.conn.durable, res |-> answer(IF r.err # 0 THEN 500 ELSE 200, r)]
  IN  IF ~file.has_file
      THEN [db |-> d, res |-> [Resp("ImportCsv", userId, 400, 0, {}, FALSE, NoRun(d))
                                 EXCEPT !.dry_run = dry_run]]
      ELSE IF errors # <<>> THEN [db |-> d, res |-> answer(422, NoRun(d))]
      ELSE IF dryRun THEN [db |-> d, res |-> answer(200, NoRun(d))]
      ELSE saved(withUser(d, userId, failAt, 0, fn(Session(d, userId, failAt, 0))))

(***************************************************************************)
(* Invoices, payments and settlements (src/routes/facturas.ts,             *)
(* payments.ts, liquidaciones.ts), the fund list (src/routes/funds.ts) and *)
(* the transaction list.  A row of the model keeps the id and the fund of  *)
(* the entity (lines is not used by invoices and payments).  Dates         *)
(* and texts are not kept: a list may come back in any order, and a text   *)
(* search is given by the ids of the rows whose text it matches.           *)
(***************************************************************************)
EntityIds == 1..MaxEntities

\* limit: z.coerce.number().int().positive().max(1000).default(200)
DefaultLimit == 200
\* limit coalesce($8::int, 1000)
DefaultTxLimit == 1000

\* an absent limit or offset (undefined)
Absent == 0 - 1

\* allowed_funds: the funds granted to a role of the user with any scope
allowed_funds(userId) ==
  { g.fund_id : g \in { x \in GrantsOf(userId) :
                          x.scope \in {"read", "write", "admin"} } }

\* a gate that lets every fund through
CanSee_All(userId, fund_id) == TRUE

\* where (me.is_admin or x.fund_id in (select fund_id from allowed_funds))
CanSee(userId, fund_id) == isAdmin(userId) \/ fund_id \in allowed_funds(userId)

\* app.v_tx_allocated: one row per allocation row of a stored transaction
v_tx_allocated(d) ==
  { [id |-> d.al[i].transaction_id, fund_id |-> d.al[i].fund_id, n |-> i] :
      i \in { k \in 1..Len(d.al) : HasTx(d, d.al[k].transaction_id) } }

\* where (ia.ok = true or efa.user_id is not null), efa being the left join
\* of v_effective_fund_access on the fund of the row and the user
CanSeeTx(userId, fund_id) ==
  \/ isAdmin(userId)
  \/ \E a \in v_effective_fund_access : a.fund_id = fund_id /\ a.user_id = userId

\* the optional filters of a list: fund_id = $n and the text search
Matches(row, q) ==
  /\ q.fund_id = NoFund \/ row.fund_id = q.fund_id
  /\ ~q.has_q \/ row.id \in q.hits

\* the orders in which a set of rows can come back
Orders(rowset) ==
  { o \in [1..Cardinality(rowset) -> rowset] :
      \A i, j \in 1..Cardinality(rowset) : i # j => o[i] # o[j] }

Min(a, b) == IF a < b THEN a ELSE b

\* limit ${limit} offset ${offset}
Page(o, limit, offset) == SubSeq(o, offset + 1, Min(Len(o), offset + limit))

\* a list query validates its limit (positive) and offset (not negative)
ListQueryValid(q) ==
  /\ q.limit = Absent \/ q.limit > 0
  /\ q.offset = Absent \/ q.offset >= 0

ReadResp(op, userId, status, id, q, rows) ==
  [Resp(op, userId, status, id,
        IF q.fund_id = NoFund THEN {} ELSE {q.fund_id}, TRUE, NoRun(EmptyDb))
     EXCEPT !.rows = rows]

\* GET /facturas, /payments, /liquidaciones: the responses the request can get
ListEntities(op, table, userId, q) ==
  IF ~ListQueryValid(q) THEN { ReadResp(op, userId, 400, 0, q, <<>>) }
  ELSE LET limit == IF q.limit = Absent THEN DefaultLimit ELSE q.limit
           offset == IF q.offset = Absent THEN 0 ELSE q.offset
           visible == { r \in table : CanSee(userId, r.fund_id) /\ Matches(r, q) }
       IN  { ReadResp(op, userId, 200, 0, q, Page(o, limit, offset)) :
               o \in Orders(visible) }

\* a detail read that tells a row of a fund without access (403) from a
\* missing row (404)
GetEntity_Forbidden(op, table, userId, id) ==
  LET found == { r \in table : r.id = id /\ CanSee(userId, r.fund_id) }
      none == [fund_id |-> NoFund, has_q |-> FALSE, hits |-> {},
               limit |-> Absent, offset |-> Absent]
  IN  IF found # {} THEN { ReadResp(op, userId, 200, id, none, <<r>>) : r \in found }
      ELSE IF \E r \in table : r.id = id
           THEN { ReadResp(op, userId, 403, id, none, <<>>) }
           ELSE { ReadResp(op, userId, 404, id, none, <<>>) }

\* GET /facturas/:id, /payments/:id, /liquidaciones/:id
GetEntity(op, table, userId, id) ==
  LET found == { r \in table : r.id = id /\ CanSee(userId, r.fund_id) }
      none == [fund_id |-> NoFund, has_q |-> FALSE, hits |-> {},
               limit |-> Absent, offset |-> Absent]
  IN  IF found = {} THEN { ReadResp(op, userId, 404, id, none, <<>>) }
      ELSE { ReadResp(op, userId, 200, id, none, <<r>>) : r \in found }

\* GET /transactions: Range.parse throws on an invalid query
ListTx(d, userId, q) ==
  IF ~ListQueryValid(q)
  THEN { ReadResp("ListTx", userId, ErrorResponse(StoreErr), 0, q, <<>>) }
  ELSE LET limit == IF q.limit = Absent THEN DefaultTxLimit ELSE q.limit
           offset == IF q.offset = Absent THEN 0 ELSE q.offset
           visible == { r \in v_tx_allocated(d) :
                          CanSeeTx(userId, r.fund_id) /\ Matches(r, q) }
       IN  { ReadResp("ListTx", userId, 200, 0, q, Page(o, limit, offset)) :
               o \in Orders(visible) }

\* GET /funds: app.funds joined with v_effective_fund_access on the user
ListFunds(userId) ==
  LET none == [fund_id |-> NoFund, has_q |-> FALSE, hits |-> {},
               limit |-> Absent, offset |-> Absent]
      visible == { [id |-> f, fund_id |-> f] :
                     f \in { x \in Funds :
                               \E a \in v_effective_fund_access :
                                 a.fund_id = x /\ a.user_id = userId } }
  IN  { ReadResp("ListFunds", userId, 200, 0, none, o) : o \in Orders(visible) }

\* insert into app.<table> (fund_id, ...) values (...) returning id
InsertEntity(d, table, fund_id, lines) ==
  LET row == [id |-> d.next_ent, fund_id |-> fund_id, lines |-> lines]
  IN  CASE table = "facturas" ->
             [d EXCEPT !.facturas = @ \cup {row}, !.next_ent = @ + 1]
        [] table = "payments" ->
             [d EXCEPT !.payments = @ \cup {row}, !.next_ent = @ + 1]

\* POST /facturas and POST /payments: requireRole('admin'), CreateBody, one
\* insert under withUser
PostEntity(op, table, d, userId, body, failAt) ==
  LET returning(i, id) == IF i.err # 0 THEN i ELSE [i EXCEPT !.out = id]
      fn(rs) ==
        returning(Query(rs, failAt, TRUE,
                        Write(rs.conn,
                              InsertEntity(rs.conn.work, table, body.fund_id, 0))),
                  rs.conn.work.next_ent)
      answer(r) ==
        [db |-> r.conn.durable,
         res |-> Resp(op, userId,
                      IF r.err # 0 THEN ErrorResponse(r.err) ELSE 201,
                      r.out, {body.fund_id}, TRUE, r)]
      handler(gate) ==
        IF gate.status # 0
        THEN [db |-> gate.run.conn.durable,
              res |-> Resp(op, userId, gate.status, 0, {}, TRUE, gate.run)]
        ELSE IF body.fund_id \notin Funds
        THEN [db |-> d, res |-> Resp(op, userId, 400, 0, {}, FALSE, gate.run)]
        ELSE answer(withUser(d, userId, failAt, gate.run.n,
                             fn(Session(d, userId, failAt, gate.run.n))))
  IN  handler(requireRole(d, userId, "admin", failAt))

(***************************************************************************)
(* Settlements (src/routes/liquidaciones.ts).  An amount is an integer     *)
(* number of 0.001, a total an integer number of 0.01.  A header row keeps *)
(* id, fund and the two header amounts; a row of liquidacion_lines keeps   *)
(* the settlement, the table it is in (invoices, expenses, work items,     *)
(* positive and negative balances, comments), its serial number in that    *)
(* table and its amount (0 for a comment).                                 *)
(***************************************************************************)
\* the tables in the order of the bulk inserts of POST; PUT /:id/lines
\* replaces the first five
LineTables ==
  <<"facturas", "gastos", "trabajos", "saldos_positivos", "saldos_negativos",
    "comentarios">>

\* the array of a body that goes to a table
ItemsOf(body, table) ==
  CASE table = "facturas" -> body.facturas
    [] table = "gastos" -> body.detalle_gastos
    [] table = "trabajos" -> body.detalle_trabajos
    [] table = "saldos_positivos" -> body.saldos_positivos
    [] table = "saldos_negativos" -> body.saldos_negativos
    [] table = "comentarios" -> body.comentarios

\* a schema that accepts a settlement without invoice lines
superRefine_None(v) == TRUE

\* superRefine: if (!v.facturas?.length) addIssue('Debe cargar al menos una factura')
superRefine(v) == Len(v.facturas) # 0

\* the arrays of CreateBody and LinesBody: monto positive for an invoice
\* line, nonnegative for the others
LinesValid(body) ==
  /\ \A k \in 1..Len(body.facturas) : body.facturas[k] > 0
  /\ \A t \in {"gastos", "trabajos", "saldos_positivos", "saldos_negativos"} :
       \A k \in 1..Len(ItemsOf(body, t)) : ItemsOf(body, t)[k] >= 0

\* CreateBody.safeParse
CreateBodyValid(body) ==
  body.fund_id \in Funds /\ LinesValid(body) /\ superRefine(body)

\* the settlement the line rows reference is stored (foreign key)
HasLiquidacion(d, id) == \E l \in d.liquidaciones : l.id = id

LinesIn(d, id, table) ==
  { r \in d.lineas : r.liquidacion_id = id /\ r.table = table }

\* insert into app.liquidaciones (..., fund_id, ..., impositivo, ingreso_banco, ...)
\* returning id
InsertLiquidacion(d, body) ==
  [d EXCEPT !.liquidaciones =
              @ \cup {[id |-> d.next_ent, fund_id |-> body.fund_id,
                       ingreso_banco |-> body.ingreso_banco,
                       impositivo |-> body.impositivo]},
            !.next_ent = @ + 1]

\* insert into app.liquidacion_<table> (liquidacion_id, ..., monto) values (...), ...
InsertLines(d, id, table, items) ==
  [d EXCEPT !.lineas =
     @ \cup { [liquidacion_id |-> id, table |-> table,
               n |-> Cardinality(LinesIn(d, id, table)) + k,
               monto |-> items[k]] : k \in 1..Len(items) }]

\* delete from app.liquidacion_<table> where liquidacion_id = $1
DeleteLines(d, id, table) ==
  [d EXCEPT !.lineas = @ \ LinesIn(d, id, table)]

\* a bulk insert on a connection of its own: it commits by itself
bulk_Autocommit(rs, failAt, id, table, items) ==
  IF items = <<>> THEN rs
  ELSE Query(rs, failAt, HasLiquidacion(rs.conn.work, id),
             [rs.conn EXCEPT
                !.work = InsertLines(rs.conn.work, id, table, items),
                !.durable = InsertLines(rs.conn.work, id, table, items)])

\* bulk(table, cols, items, pick): no statement for an empty array
bulk(rs, failAt, id, table, items) ==
  IF items = <<>> THEN rs
  ELSE Query(rs, failAt, HasLiquidacion(rs.conn.work, id),
             Write(rs.conn, InsertLines(rs.conn.work, id, table, items)))

RECURSIVE Bulks(_, _, _, _, _, _)
\* the bulk inserts of the tables i..last, in order
Bulks(rs, failAt, id, body, i, last) ==
  IF i > last THEN rs
  ELSE Bulks(bulk(rs, failAt, id, LineTables[i], ItemsOf(body, LineTables[i])),
             failAt, id, body, i + 1, last)

RECURSIVE Deletes(_, _, _, _)
\* the five deletes of PUT /:id/lines, from the i-th on
Deletes(rs, failAt, id, i) ==
  IF i > 5 THEN rs
  ELSE Deletes(Query(rs, failAt, TRUE,
                     Write(rs.conn, DeleteLines(rs.conn.work, id, LineTables[i]))),
               failAt, id, i + 1)

\* POST /liquidaciones: requireRole('admin'), CreateBody (at least one
\* invoice line), header and lines in a nested begin/commit under withUser
PostLiquidacion(d, userId, body, failAt) ==
  LET header(b) ==
        Query(b, failAt, TRUE, Write(b.conn, InsertLiquidacion(b.conn.work, body)))
      commit(l) == Query(l, failAt, TRUE, QCommit(l.conn))
      returning(c, id) ==
        IF c.err # 0 THEN [c EXCEPT !.conn = QRollback(c.conn)]
        ELSE [c EXCEPT !.out = id]
      inserts(b) ==
        returning(commit(Bulks(header(b), failAt, b.conn.work.next_ent, body, 1, 6)),
                  b.conn.work.next_ent)
      fn(rs) == inserts(Query(rs, failAt, TRUE, QBegin(rs.conn)))
      answer(r) ==
        [db |-> r.conn.durable,
         res |-> Resp("PostLiquidacion", userId,
                      IF r.err # 0 THEN ErrorResponse(r.err) ELSE 201,
                      r.out, {body.fund_id}, TRUE, r)]
      handler(gate) ==
        IF gate.status # 0
        THEN [db |-> gate.run.conn.durable,
              res |-> Resp("PostLiquidacion", userId, gate.status, 0, {}, TRUE,
                           gate.run)]
        ELSE IF ~CreateBodyValid(body)
        THEN [db |-> d, res |-> Resp("PostLiquidacion", userId, 400, 0, {}, FALSE,
                                    gate.run)]
        ELSE answer(withUser(d, userId, failAt, gate.run.n,
                             fn(Session(d, userId, failAt, gate.run.n))))
  IN  handler(requireRole(d, userId, "admin", failAt))

\* PUT /liquidaciones/:id/lines: requireRole('admin'), LinesBody, five
\* deletes and up to five bulk inserts in a nested begin/commit under
\* withUser
PutLines(d, userId, id, body, failAt) ==
  LET commit(l) == Query(l, failAt, TRUE, QCommit(l.conn))
      catch(c) == IF c.err # 0 THEN [c EXCEPT !.conn = QRollback(c.conn)] ELSE c
      replace(b) == Bulks(Deletes(b, failAt, id, 1), failAt, id, body, 1, 5)
      fn(rs) == catch(commit(replace(Query(rs, failAt, TRUE, QBegin(rs.conn)))))
      answer(r) ==
        [db |-> r.conn.durable,
         res |-> Resp("PutLines", userId,
                      IF r.err # 0 THEN ErrorResponse(r.err) ELSE 200,
                      id, {}, TRUE, r)]
      handler(gate) ==
        IF gate.status # 0
        THEN [db |-> gate.run.conn.durable,
              res |-> Resp("PutLines", userId, gate.status, id, {}, TRUE, gate.run)]
        ELSE IF ~LinesValid(body)
        THEN [db |-> d, res |-> Resp("PutLines", userId, 400, id, {}, FALSE,
                                    gate.run)]
        ELSE answer(withUser(d, userId, failAt, gate.run.n,
                             fn(Session(d, userId, failAt, gate.run.n))))
  IN  handler(requireRole(d, userId, "admin", failAt))

\* update app.liquidaciones set <the columns given> where id = $n returning id
UpdateLiquidacion(d, id, body) ==
  [d EXCEPT !.liquidaciones =
     { IF l.id # id THEN l
       ELSE [l EXCEPT
               !.fund_id = IF "fund_id" \in body.sets THEN body.fund_id ELSE @,
               !.ingreso_banco =
                 IF "ingreso_banco" \in body.sets THEN body.ingreso_banco ELSE @,
               !.impositivo =
                 IF "impositivo" \in body.sets THEN body.impositivo ELSE @] :
       l \in @ }]

\* PATCH /liquidaciones/:id: requireRole('admin'), PatchBody, one update
\* under withUser; sets are the columns the body gives
PatchLiquidacion(d, userId, id, body, failAt) ==
  LET returning(u, rowCount) == IF u.err # 0 THEN u ELSE [u EXCEPT !.out = rowCount]
      fn(rs) ==
        returning(Query(rs, failAt, TRUE,
                        Write(rs.conn, UpdateLiquidacion(rs.conn.work, id, body))),
                  IF HasLiquidacion(rs.conn.work, id) THEN 1 ELSE 0)
      answer(r) ==
        [db |-> r.conn.durable,
         res |-> Resp("PatchLiquidacion", userId,
                      IF r.err # 0 THEN ErrorResponse(r.err)
                      ELSE IF r.out = 0 THEN 404 ELSE 200,
                      id, {}, TRUE, r)]
      handler(gate) ==
        IF gate.status # 0
        THEN [db |-> gate.run.conn.durable,
              res |-> Resp("PatchLiquidacion", userId, gate.status, id, {}, TRUE,
                           gate.run)]
        ELSE IF body.sets = {} \/ ("fund_id" \in body.sets /\ body.fund_id \notin Funds)
        THEN [db |-> d, res |-> Resp("PatchLiquidacion", userId, 400, id, {}, FALSE,
                                    gate.run)]
        ELSE answer(withUser(d, userId, failAt, gate.run.n,
                             fn(Session(d, userId, failAt, gate.run.n))))
  IN  handler(requireRole(d, userId, "admin", failAt))

RECURSIVE SumMonto(_)
\* sum(monto) over a set of line rows
SumMonto(rows) ==
  IF rows = {} THEN 0
  ELSE LET r == CHOOSE x \in rows : TRUE
       IN  r.monto + SumMonto(rows \ {r})

\* app.liquidaciones_resumen: one row per settlement with the subtotals of
\* its line tables
liquidaciones_resumen(d) ==
  { [id |-> l.id, fund_id |-> l.fund_id,
     subtotal_gastos_y_pagos_adm |-> SumMonto(LinesIn(d, l.id, "gastos")),
     subtotal_trabajos |-> SumMonto(LinesIn(d, l.id, "trabajos")),
     saldos_positivos |-> SumMonto(LinesIn(d, l.id, "saldos_positivos")),
     saldos_negativos |-> SumMonto(LinesIn(d, l.id, "saldos_negativos")),
     facturas_count |-> Cardinality(LinesIn(d, l.id, "facturas"))] :
     l \in d.liquidaciones }

\* a rounding that drops the third decimal
round2_Truncates(x) == IF x >= 0 THEN x \div 10 ELSE -((-x) \div 10)

\* round(x::numeric, 2): half away from zero, from 0.001 to 0.01
round2(x) == IF x >= 0 THEN (x + 5) \div 10 ELSE -((5 - x) \div 10)

\* round((ingreso_banco - impositivo - subtotal_gastos_y_pagos_adm
\*        - subtotal_trabajos - saldos_negativos + saldos_positivos)::numeric, 2)
\* for header row l and view row r
total_final(l, r) ==
  round2(l.ingreso_banco - l.impositivo - r.subtotal_gastos_y_pagos_adm
           - r.subtotal_trabajos - r.saldos_negativos + r.saldos_positivos)

DigitChar(k) ==
  CASE k = 0 -> "0" [] k = 1 -> "1" [] k = 2 -> "2" [] k = 3 -> "3"
    [] k = 4 -> "4" [] k = 5 -> "5" [] k = 6 -> "6" [] k = 7 -> "7"
    [] k = 8 -> "8" [] k = 9 -> "9"

RECURSIVE NatText(_)
NatText(n) ==
  IF n < 10 THEN <<DigitChar(n)>> ELSE NatText(n \div 10) \o <<DigitChar(n % 10)>>

\* a numeric of scale 2 as the driver returns it: a string with two decimals
NumericText(c) ==
  (IF c < 0 THEN <<"-">> ELSE <<>>)
    \o NatText(Abs(c) \div 100)
    \o <<".", DigitChar((Abs(c) % 100) \div 10), DigitChar(Abs(c) % 10)>>

\* a numeric of scale 2 inside json_build_object, parsed by the driver: a number
JsonNumber(c) == Normal(c, 2)

\* the view row of a settlement (the join on r.id = l.id)
ResumenOf(d, l) == CHOOSE r \in liquidaciones_resumen(d) : r.id = l.id

\* GET /liquidaciones: the rows of the list before the access filter;
\* total_final is a numeric column
liquidaciones_list(d) ==
  { [id |-> l.id, fund_id |-> l.fund_id,
     total_final |-> NumericText(total_final(l, ResumenOf(d, l)))] :
     l \in d.liquidaciones }

\* GET /liquidaciones/:id: the json object of a settlement before the access
\* filter; total_final is a number of the object, lines are its line rows
liquidaciones_detail(d) ==
  { [id |-> l.id, fund_id |-> l.fund_id,
     total_final |-> JsonNumber(total_final(l, ResumenOf(d, l))),
     lines |-> { r \in d.lineas : r.liquidacion_id = l.id }] :
     l \in d.liquidaciones }

(***************************************************************************)
(* Requests.  A store failure is part of a request: failAt names the       *)
(* statement that fails.  Bodies vary the base fields over a fixed         *)
(* allocation part and the allocation part over a fixed base; failures     *)
(* are injected into requests that change both.                            *)
(***************************************************************************)
\* the callers of the write endpoints: an admin without grants, a manager
\* with grants on both funds, an editor with write scope on fA only
Callers == {"uAdmin", "uMgr", "uEd"}

RatioInputs == {Half, Half + 1}
AllocRows == [fund_id : Funds, ratio : RatioInputs]
AllocLists == UNION { [1..n -> AllocRows] : n \in 0..MaxAllocs }

AllocParts ==
  { p \in [fund_id : Funds \cup {NoFund}, has_allocations : BOOLEAN,
           allocations : AllocLists] :
      /\ ~p.has_allocations => p.allocations = <<>>
      /\ p.fund_id # NoFund => Len(p.allocations) <= 1 }

BaseParts == [amount : {NoNumber, Dec(0), Dec(1), Dec(2)}, type : TxTypes \cup {NoType}]

Body(b, p) ==
  [amount |-> b.amount, type |-> b.type, fund_id |-> p.fund_id,
   has_allocations |-> p.has_allocations, allocations |-> p.allocations]

NoBase == [amount |-> NoNumber, type |-> NoType]
FirstBase == [amount |-> Dec(1), type |-> "credit"]
OtherBase == [amount |-> Dec(2), type |-> "debit"]
NoAllocPart == [fund_id |-> NoFund, has_allocations |-> FALSE, allocations |-> <<>>]
ShortcutPart(f) == [fund_id |-> f, has_allocations |-> FALSE, allocations |-> <<>>]
SplitPart ==
  [fund_id |-> NoFund, has_allocations |-> TRUE,
   allocations |-> <<[fund_id |-> "fA", ratio |-> Half],
                     [fund_id |-> "fB", ratio |-> Half]>>]

PostBodies ==
  { Body(FirstBase, p) : p \in AllocParts }
    \cup { Body(b, ShortcutPart("fA")) : b \in BaseParts }

PatchBodies ==
  { Body(NoBase, p) : p \in AllocParts }
    \cup { Body(b, NoAllocPart) : b \in BaseParts }

FailBodies == { Body(OtherBase, p) : p \in {SplitPart, ShortcutPart("fB")} }

\* begin, set_current_user, the gate, the base statement, the delete, one
\* insert per allocation, commit
TxFailPoints == 1..(6 + MaxAllocs)

\* failures for a caller who passes the gate, and up to the gate for one
\* who does not
FailRequests ==
  [user : {"uMgr"}, body : FailBodies, failAt : TxFailPoints]
    \cup [user : {"uEd"}, body : {Body(OtherBase, SplitPart)}, failAt : 1..3]

PostRequests == [user : Callers, body : PostBodies, failAt : {0}] \cup FailRequests

PatchRequests == [user : Callers, body : PatchBodies, failAt : {0}] \cup FailRequests

\* the role gate's session (4 statements) and the handler's (6)
DeleteFailPoints == 1..10

DeleteRequests ==
  [user : Callers, failAt : {0}] \cup [user : {"uAdmin"}, failAt : DeleteFailPoints]

\* begin, set_current_user, begin, two inserts per row, commit, commit
ImportFailPoints == 1..(5 + 2 * MaxRows)

DryRunInputs == {"1", "none"}

ImportRequests ==
  [user : {"uMgr", "uEd"}, dry_run : DryRunInputs, file : CsvFiles, failAt : {0}]
    \cup { q \in [user : {"uEd"}, dry_run : {"none"}, file : CsvFiles,
                  failAt : ImportFailPoints] : ErrorsOf[q.file] = <<>> }

(***************************************************************************)
(* The state machine                                                       *)
(***************************************************************************)
TheDb ==
  [tx |-> bank_transactions, al |-> transaction_allocations, next |-> next_id,
   facturas |-> facturas, payments |-> payments, liquidaciones |-> liquidaciones,
   lineas |-> liquidacion_lines, next_ent |-> next_ent]

Answer(o) ==
  /\ bank_transactions' = o.db.tx
  /\ transaction_allocations' = o.db.al
  /\ next_id' = o.db.next
  /\ facturas' = o.db.facturas
  /\ payments' = o.db.payments
  /\ liquidaciones' = o.db.liquidaciones
  /\ liquidacion_lines' = o.db.lineas
  /\ next_ent' = o.db.next_ent
  /\ res' = o.res
  /\ UNCHANGED <<arg, out>>

NoResp == Resp("none", "none", 0, 0, {}, FALSE, NoRun(EmptyDb))
NoOut == [s |-> <<>>, v |-> NoNumber, done |-> FALSE]

Init ==
  /\ bank_transactions = {}
  /\ transaction_allocations = <<>>
  /\ next_id = 1
  /\ facturas = {}
  /\ payments = {}
  /\ liquidaciones = {}
  /\ liquidacion_lines = {}
  /\ next_ent = 1
  /\ res = NoResp
  /\ arg = <<>>
  /\ out = NoOut

\* ids are never reused; the model stops creating at MaxTx transactions
PostTxReq ==
  /\ next_id <= MaxTx
  /\ \E q \in PostRequests : Answer(PostTx(TheDb, q.user, q.body, q.failAt))

PatchTxReq ==
  \E q \in PatchRequests, txId \in TxIds :
    Answer(PatchTx(TheDb, q.user, txId, q.body, q.failAt))

DeleteTxReq ==
  \E q \in DeleteRequests, txId \in TxIds :
    Answer(DeleteTx(TheDb, q.user, txId, q.failAt))

\* an import that stores its rows is taken while the store has room; one
\* whose begin, insert or commit fails stores nothing and is always taken
ImportCsvReq ==
  \E q \in ImportRequests :
    /\ \/ isDryRun(q.dry_run)
       \/ ErrorsOf[q.file] # <<>>
       \/ next_id + Len(RowsOf[q.file]) <= MaxTx + 1
       \/ q.failAt \in 1..(4 + 2 * Len(RowsOf[q.file]))
    /\ Answer(ImportCsv(TheDb, q.user, q.dry_run, q.file, q.failAt))

(***************************************************************************)
(* The read endpoints, on a store filled by the admin-only creates and by  *)
(* POST /transactions.                                                     *)
(***************************************************************************)
\* an admin and an owner without grants, a viewer with read scope on fA only
ReadCallers == {"uAdmin", "uOwner", "uView"}

NoQuery ==
  [fund_id |-> NoFund, has_q |-> FALSE, hits |-> {}, limit |-> Absent,
   offset |-> Absent]

ListQueries ==
  { NoQuery,
    [NoQuery EXCEPT !.fund_id = "fA"],
    [NoQuery EXCEPT !.fund_id = "fB"],
    [NoQuery EXCEPT !.has_q = TRUE, !.hits = {1}],
    [NoQuery EXCEPT !.limit = 1],
    [NoQuery EXCEPT !.offset = 1],
    [NoQuery EXCEPT !.limit = 1, !.offset = 1],
    [NoQuery EXCEPT !.limit = 0],
    [NoQuery EXCEPT !.fund_id = "fB", !.has_q = TRUE, !.hits = {1, 2}, !.limit = 1] }

EntityBodies == [fund_id : Funds \cup {"bad"}, lines : {0}]
\* a settlement body with the invoice lines given and nothing else
LiquidacionBody(f, invoices) ==
  [fund_id |-> f, ingreso_banco |-> 0, impositivo |-> 0,
   facturas |-> invoices, detalle_gastos |-> <<>>, detalle_trabajos |-> <<>>,
   saldos_positivos |-> <<>>, saldos_negativos |-> <<>>, comentarios |-> <<>>]

LiquidacionBodies ==
  { LiquidacionBody(f, l) : f \in Funds, l \in {<<>>, <<1000>>} }
EntityCreators == {"uAdmin", "uView"}

Reply(r) == Answer([db |-> TheDb, res |-> r])

PostTxByManager ==
  /\ next_id <= MaxTx
  /\ \E p \in {ShortcutPart("fA"), ShortcutPart("fB"), SplitPart} :
       Answer(PostTx(TheDb, "uMgr", Body(FirstBase, p), 0))

PostFacturaReq ==
  /\ next_ent <= MaxEntities
  /\ \E userId \in EntityCreators, body \in EntityBodies :
       Answer(PostEntity("PostFactura", "facturas", TheDb, userId, body, 0))

PostPaymentReq ==
  /\ next_ent <= MaxEntities
  /\ \E userId \in EntityCreators, body \in EntityBodies :
       Answer(PostEntity("PostPayment", "payments", TheDb, userId, body, 0))

PostLiquidacionReq ==
  /\ next_ent <= MaxEntities
  /\ \E userId \in EntityCreators, body \in LiquidacionBodies :
       Answer(PostLiquidacion(TheDb, userId, body, 0))

ListTxReq ==
  \E userId \in ReadCallers, q \in ListQueries :
    \E r \in ListTx(TheDb, userId, q) : Reply(r)

ListFacturasReq ==
  \E userId \in ReadCallers, q \in ListQueries :
    \E r \in ListEntities("ListFacturas", facturas, userId, q) : Reply(r)

GetFacturaReq ==
  \E userId \in ReadCallers, id \in EntityIds :
    \E r \in GetEntity("GetFactura", facturas, userId, id) : Reply(r)

ListPaymentsReq ==
  \E userId \in ReadCallers, q \in ListQueries :
    \E r \in ListEntities("ListPayments", payments, userId, q) : Reply(r)

GetPaymentReq ==
  \E userId \in ReadCallers, id \in EntityIds :
    \E r \in GetEntity("GetPayment", payments, userId, id) : Reply(r)

ListLiquidacionesReq ==
  \E userId \in ReadCallers, q \in ListQueries :
    \E r \in ListEntities("ListLiquidaciones", liquidaciones_list(TheDb), userId, q) :
      Reply(r)

GetLiquidacionReq ==
  \E userId \in ReadCallers, id \in EntityIds :
    \E r \in GetEntity("GetLiquidacion", liquidaciones_detail(TheDb), userId, id) :
      Reply(r)

ListFundsReq ==
  \E userId \in ReadCallers : \E r \in ListFunds(userId) : Reply(r)

NextRead ==
  \/ PostTxByManager
  \/ PostFacturaReq
  \/ PostPaymentReq
  \/ PostLiquidacionReq
  \/ ListTxReq
  \/ ListFacturasReq
  \/ GetFacturaReq
  \/ ListPaymentsReq
  \/ GetPaymentReq
  \/ ListLiquidacionesReq
  \/ GetLiquidacionReq
  \/ ListFundsReq

SpecRead == Init /\ [][NextRead]_vars

(***************************************************************************)
(* parseAmountLoose on its own: the argument is drawn at the start, the    *)
(* step applies the function.                                              *)
(***************************************************************************)
AmountChars == {"1", "0", ".", ",", "-", " "}

AmountExamples ==
  { <<"4", "0", ".", "0", "0", "0", ",", "0", "0">>,
    <<"4", "0", ",", "0", "0", "0", ".", "0", "0">>,
    <<"1", "2", "0">> }

AmountStrings ==
  UNION { [1..n -> AmountChars] : n \in 0..MaxAmountLen } \cup AmountExamples

InitParse ==
  /\ bank_transactions = {}
  /\ transaction_allocations = <<>>
  /\ next_id = 1
  /\ facturas = {}
  /\ payments = {}
  /\ liquidaciones = {}
  /\ liquidacion_lines = {}
  /\ next_ent = 1
  /\ res = NoResp
  /\ arg \in AmountStrings
  /\ out = NoOut

ParseAmount ==
  /\ ~out.done
  /\ out' = [s |-> arg, v |-> parseAmountLoose(arg), done |-> TRUE]
  /\ UNCHANGED <<bank_transactions, transaction_allocations, next_id,
                 facturas, payments, liquidaciones, liquidacion_lines,
                 next_ent, res, arg>>

NextParse == ParseAmount

SpecParse == InitParse /\ [][NextParse]_vars

Next == PostTxReq \/ PatchTxReq \/ DeleteTxReq \/ ImportCsvReq

Spec == Init /\ [][Next]_vars

(***************************************************************************)
(* POST and PATCH /transactions on allocation sets around the tolerance:   *)
(* the request is kept in arg next to its response.                        *)
(***************************************************************************)
\* ratios around 0.5 and around 1, in units of 1e-9
SumRatioInputs ==
  {Half - TolNano, Half, Half + TolNano,
   ONE - 2 * TolNano, ONE - TolNano, ONE, ONE + TolNano, ONE + 2 * TolNano}

SumLists ==
  { <<[fund_id |-> "fA", ratio |-> r]>> :
      r \in SumRatioInputs \ {Half - TolNano, Half + TolNano} }
    \cup { <<[fund_id |-> "fA", ratio |-> r1], [fund_id |-> "fB", ratio |-> r2]>> :
             r1, r2 \in {Half - TolNano, Half, Half + TolNano} }

EmptyPart == [fund_id |-> NoFund, has_allocations |-> TRUE, allocations |-> <<>>]

SumParts ==
  { [fund_id |-> NoFund, has_allocations |-> TRUE, allocations |-> l] : l \in SumLists }
    \cup { EmptyPart, NoAllocPart, ShortcutPart("fA"), ShortcutPart("fB"),
           [EmptyPart EXCEPT !.fund_id = "fB"] }

\* a manager with write scope on both funds, an editor with write scope on
\* fA only; the store fails the early statements of some requests without
\* an allocation set
AllocRequests ==
  [user : {"uMgr", "uEd"},
   body : { Body(FirstBase, p) : p \in SumParts }
            \cup { Body(NoBase, p) : p \in {EmptyPart, NoAllocPart} },
   failAt : {0}]
    \cup [user : {"uMgr"}, body : {Body(FirstBase, EmptyPart)}, failAt : 1..3]

AnswerTo(q, o) ==
  /\ bank_transactions' = o.db.tx
  /\ transaction_allocations' = o.db.al
  /\ next_id' = o.db.next
  /\ res' = o.res
  /\ arg' = q
  /\ UNCHANGED <<facturas, payments, liquidaciones, liquidacion_lines,
                 next_ent, out>>

PostAllocReq ==
  /\ next_id <= MaxTx
  /\ \E q \in AllocRequests :
       AnswerTo(q, PostTx(TheDb, q.user, q.body, q.failAt))

PatchAllocReq ==
  /\ next_id > 1
  /\ \E q \in AllocRequests, txId \in TxIds :
       AnswerTo(q, PatchTx(TheDb, q.user, txId, q.body, q.failAt))

NextAlloc == PostAllocReq \/ PatchAllocReq

SpecAlloc == Init /\ [][NextAlloc]_vars

(***************************************************************************)
(* The role gate: the admin-only endpoints called by every user of the     *)
(* store, with the store failing the gate's connection or one of its       *)
(* statements, or a statement of the handler behind it.                    *)
(***************************************************************************)
\* the gate's session: begin, set_current_user, membership query, commit
GateFailPoints == {ConnectFails} \cup 1..4

GateRequests ==
  [user : Users, failAt : {0} \cup GateFailPoints]
    \cup [user : {"uAdmin"}, failAt : 5..8]

GatedDeleteReq ==
  \E q \in GateRequests, txId \in TxIds :
    Answer(DeleteTx(TheDb, q.user, txId, q.failAt))

GatedFacturaReq ==
  /\ next_ent <= MaxEntities
  /\ \E q \in GateRequests, f \in Funds :
       Answer(PostEntity("PostFactura", "facturas", TheDb, q.user,
                         [fund_id |-> f, lines |-> 0], q.failAt))

NextGate == PostTxByManager \/ GatedDeleteReq \/ GatedFacturaReq

SpecGate == Init /\ [][NextGate]_vars

(***************************************************************************)
(* Authentication and dispatch (src/middleware/auth.ts, src/index.ts).     *)
(* A path is the sequence of its segments.  A request passes the mounts of *)
(* the application in the order of their registration; a mount whose path  *)
(* is a prefix of the request's runs its middleware and then its router,   *)
(* and the request falls through to the next mount when no route of the    *)
(* router matches.                                                         *)
(***************************************************************************)
NoUser == "none"
NoSub == "none"

\* the token of a header without one ('' or undefined)
EmptyToken == [sig |-> "none", sub |-> NoSub]

\* signed tokens: sig is "ok" when jwt.verify accepts the token (signature,
\* algorithm, expiry, issuer, audience), "bad" when it throws
Tokens == [sig : {"ok", "bad"}, sub : {"uMgr", NoSub}]

\* no header, 'Bearer ' without a token, a bearer token, and a token that
\* verifies under another scheme
Headers ==
  { [scheme |-> "none", token |-> EmptyToken],
    [scheme |-> "Bearer", token |-> EmptyToken],
    [scheme |-> "Basic", token |-> [sig |-> "ok", sub |-> "uMgr"]] }
    \cup [scheme : {"Bearer"}, token : Tokens]

\* auth(req, res, next): status 0 stands for next() with req.user set
auth(hdr) ==
  LET token == IF hdr.scheme = "Bearer" THEN hdr.token ELSE EmptyToken
  IN  IF token = EmptyToken THEN [status |-> 401, user |-> NoUser]
      ELSE IF token.sig # "ok" THEN [status |-> 401, user |-> NoUser]
      ELSE IF token.sub = NoSub THEN [status |-> 401, user |-> NoUser]
      ELSE [status |-> 0, user |-> token.sub]

Route(method, path) == [method |-> method, path |-> path]

\* the routes of every router
Routers ==
  [health |-> {Route("GET", <<>>)},
   auth |-> {Route("POST", <<"login">>)},
   me |-> {Route("GET", <<>>)},
   funds |-> {Route("GET", <<>>)},
   transactions |->
     {Route("GET", <<"accounts">>), Route("GET", <<>>), Route("POST", <<>>),
      Route("PATCH", <<":id">>), Route("DELETE", <<":id">>)},
   categories |-> {Route("GET", <<>>)},
   clients |->
     {Route("GET", <<>>), Route("POST", <<>>), Route("PATCH", <<":id">>),
      Route("DELETE", <<":id">>)},
   providers |-> {Route("GET", <<>>), Route("POST", <<>>), Route("PATCH", <<":id">>)},
   liquidaciones |->
     {Route("GET", <<>>), Route("GET", <<":id">>), Route("POST", <<>>),
      Route("PUT", <<":id", "lines">>), Route("PATCH", <<":id">>),
      Route("DELETE", <<":id">>)},
   cuentas_los_pipinos |->
     {Route("GET", <<>>), Route("POST", <<>>), Route("PATCH", <<":id">>),
      Route("POST", <<":id", "touch">>)},
   facturas |->
     {Route("GET", <<>>), Route("GET", <<":id">>), Route("POST", <<>>),
      Route("PATCH", <<":id">>), Route("DELETE", <<":id">>),
      Route("PATCH", <<":id", "estado">>)},
   payments |->
     {Route("GET", <<>>), Route("GET", <<":id">>), Route("POST", <<>>),
      Route("PATCH", <<":id">>), Route("PATCH", <<":id", "estado">>)},
   transactions_import |-> {Route("POST", <<"transactions", "import">>)}]

Mount(path, withAuth, router) == [path |-> path, auth |-> withAuth, router |-> router]

\* the import router registered before the mounts that authenticate
Mounts_ImportFirst ==
  << Mount(<<"health">>, FALSE, "health"),
     Mount(<<"auth">>, FALSE, "auth"),
     Mount(<<>>, FALSE, "transactions_import"),
     Mount(<<"me">>, TRUE, "me"),
     Mount(<<"funds">>, TRUE, "funds"),
     Mount(<<"transactions">>, TRUE, "transactions"),
     Mount(<<"categories">>, TRUE, "categories"),
     Mount(<<"clients">>, TRUE, "clients"),
     Mount(<<"providers">>, TRUE, "providers"),
     Mount(<<"liquidaciones">>, TRUE, "liquidaciones"),
     Mount(<<"cuentas-lospipinos">>, TRUE, "cuentas_los_pipinos"),
     Mount(<<"facturas">>, TRUE, "facturas"),
     Mount(<<"payments">>, TRUE, "payments") >>

\* app.get('/health'), app.use('/auth', ...), app.use(path, auth, router) in
\* the order of src/index.ts
Mounts ==
  << Mount(<<"health">>, FALSE, "health"),
     Mount(<<"auth">>, FALSE, "auth"),
     Mount(<<"me">>, TRUE, "me"),
     Mount(<<"funds">>, TRUE, "funds"),
     Mount(<<"transactions">>, TRUE, "transactions"),
     Mount(<<"categories">>, TRUE, "categories"),
     Mount(<<"clients">>, TRUE, "clients"),
     Mount(<<"providers">>, TRUE, "providers"),
     Mount(<<"liquidaciones">>, TRUE, "liquidaciones"),
     Mount(<<"cuentas-lospipinos">>, TRUE, "cuentas_los_pipinos"),
     Mount(<<"facturas">>, TRUE, "facturas"),
     Mount(<<"payments">>, TRUE, "payments"),
     Mount(<<>>, FALSE, "transactions_import") >>

IsPrefix(p, path) == Len(p) <= Len(path) /\ SubSeq(path, 1, Len(p)) = p

\* a route matches a path of the same length, ':id' matching any segment
RouteMatches(route, method, path) ==
  /\ route.method = method
  /\ Len(route.path) = Len(path)
  /\ \A i \in 1..Len(path) : route.path[i] \in {":id", path[i]}

NoHandler == [router |-> "none", route |-> Route("none", <<>>)]

RECURSIVE Dispatch(_, _, _)
\* the mounts from the i-th on; user is req.user as set so far.  The result
\* names the handler reached (NoHandler: none) and the status of a response
\* sent on the way (401 by auth, 404 when no mount is left)
Dispatch(req, i, user) ==
  IF i > Len(Mounts) THEN [status |-> 404, handler |-> NoHandler, user |-> user]
  ELSE IF ~IsPrefix(Mounts[i].path, req.path) THEN Dispatch(req, i + 1, user)
  ELSE LET rest == SubSeq(req.path, Len(Mounts[i].path) + 1, Len(req.path))
           found == { r \in Routers[Mounts[i].router] :
                        RouteMatches(r, req.method, rest) }
           router(a) ==
             IF a.status # 0
             THEN [status |-> a.status, handler |-> NoHandler, user |-> a.user]
             ELSE IF found # {}
             THEN [status |-> 0, user |-> a.user,
                   handler |-> [router |-> Mounts[i].router,
                                route |-> CHOOSE r \in found : TRUE]]
             ELSE Dispatch(req, i + 1, a.user)
       IN  router(IF Mounts[i].auth THEN auth(req.hdr)
                  ELSE [status |-> 0, user |-> user])

PublicRouters == {"health", "auth"}

\* The handler reached by a request.  POST /transactions stores a
\* transaction on fund fA, POST /transactions/import is sent without a
\* file, every other handler of a protected router reads under withUser;
\* a public handler issues no statement on behalf of a user.  A handler
\* that reads req.user!.id without req.user throws.
Handle(d, h, user) ==
  LET read(rs) == Query(rs, 0, TRUE, rs.conn)
      answer(r) == [db |-> r.conn.durable,
                    res |-> Resp(h.router, user, 200, 0, {}, TRUE, r)]
  IN  IF h.router \in PublicRouters
      THEN [db |-> d, res |-> Resp(h.router, NoUser, 200, 0, {}, TRUE, NoRun(d))]
      ELSE IF user = NoUser
      THEN [db |-> d,
            res |-> Resp(h.router, NoUser, ErrorResponse(StoreErr), 0, {}, FALSE,
                         NoRun(d))]
      ELSE IF h.router = "transactions" /\ h.route = Route("POST", <<>>)
      THEN PostTx(d, user, Body(FirstBase, ShortcutPart("fA")), 0)
      ELSE IF h.router = "transactions_import"
      THEN ImportCsv(d, user, "none", [has_file |-> FALSE, rows |-> <<>>], 0)
      ELSE answer(withUser(d, user, 0, 0, read(Session(d, user, 0, 0))))

\* the response to a request
Serve(d, req) ==
  LET respond(t) ==
        IF t.handler = NoHandler
        THEN [db |-> d, trace |-> t,
              res |-> Resp("none", t.user, t.status, 0, {}, FALSE, NoRun(d))]
        ELSE [Handle(d, t.handler, t.user) EXCEPT !.res.op = t.handler.router]
               @@ [trace |-> t]
  IN  respond(Dispatch(req, 1, NoUser))

Methods == {"GET", "POST"}

\* the mounted paths and an unknown one
PathHeads ==
  { Mounts[i].path : i \in 1..Len(Mounts) } \cup {<<"unknown">>}

\* every head, every head with an id, the import and the login
Paths ==
  PathHeads \cup { h \o <<"1">> : h \in PathHeads }
    \cup {<<"transactions", "import">>, <<"auth", "login">>}

HttpRequests == [method : Methods, path : Paths, hdr : Headers]

\* a request is served; the request and the trace of its dispatch are kept
Served(req, o) ==
  /\ arg' = req
  /\ out' = o.trace
  /\ bank_transactions' = o.db.tx
  /\ transaction_allocations' = o.db.al
  /\ next_id' = o.db.next
  /\ res' = o.res
  /\ UNCHANGED <<facturas, payments, liquidaciones, liquidacion_lines, next_ent>>

HttpRequest ==
  \E req \in HttpRequests :
    /\ next_id <= MaxTx \/ req.method # "POST" \/ req.path # <<"transactions">>
    /\ Served(req, Serve(TheDb, req))

NextAuth == HttpRequest

SpecAuth == Init /\ [][NextAuth]_vars

(***************************************************************************)
(* Settlements: create, replace the lines, patch the header and read, with *)
(* the store failing a statement of a create or of a line replacement.     *)
(* The request is kept in arg next to its response.                        *)
(***************************************************************************)
\* 10.005 on fA with one invoice line
FirstLiq ==
  [LiquidacionBody("fA", <<1000>>) EXCEPT !.ingreso_banco = 10005]

\* a settlement on fB with rows in every table: 0 - 1 - 0.335 - 1 - 0.5 + 0.25
FullLiq ==
  [fund_id |-> "fB", ingreso_banco |-> 0, impositivo |-> 1000,
   facturas |-> <<1000, 2000>>, detalle_gastos |-> <<335>>,
   detalle_trabajos |-> <<1000>>, saldos_positivos |-> <<250>>,
   saldos_negativos |-> <<500>>, comentarios |-> <<0>>]

\* a body without invoice lines
NoInvoiceLiq ==
  [LiquidacionBody("fA", <<>>) EXCEPT !.detalle_gastos = <<335>>]

NoLines == LiquidacionBody(NoFund, <<>>)

LinesBodies ==
  { NoLines,
    [NoLines EXCEPT !.facturas = <<3000>>, !.detalle_gastos = <<1005>>,
                    !.saldos_positivos = <<10>>],
    [NoLines EXCEPT !.detalle_gastos = <<335, 335>>, !.saldos_negativos = <<5>>] }

NoSets == [sets |-> {}, fund_id |-> NoFund, ingreso_banco |-> 0, impositivo |-> 0]

HeaderPatches ==
  { NoSets,
    [NoSets EXCEPT !.sets = {"ingreso_banco"}, !.ingreso_banco = 2004],
    [NoSets EXCEPT !.sets = {"impositivo"}, !.impositivo = 15],
    [NoSets EXCEPT !.sets = {"fund_id"}, !.fund_id = "fB"] }

\* the gate's session (4), begin, set_current_user, begin, the header, six
\* bulk inserts, commit, commit
CreateFailPoints == 1..16

\* the gate's session (4), begin, set_current_user, begin, five deletes,
\* five bulk inserts, commit, commit
LinesFailPoints == 1..19

LiqRequest(op, userId, id, body, failAt) ==
  [op |-> op, user |-> userId, id |-> id, body |-> body, failAt |-> failAt]

CreateRequests ==
  { LiqRequest("PostLiquidacion", u, 0, b, 0) :
      u \in {"uAdmin", "uView"}, b \in {FirstLiq, FullLiq, NoInvoiceLiq} }
    \cup { LiqRequest("PostLiquidacion", "uAdmin", 0, FullLiq, f) :
             f \in CreateFailPoints }

LinesRequests ==
  { LiqRequest("PutLines", u, id, b, 0) :
      u \in {"uAdmin", "uView"}, id \in 1..(MaxLiq + 1), b \in LinesBodies }
    \cup { LiqRequest("PutLines", "uAdmin", 1, b, f) :
             b \in LinesBodies \ {NoLines}, f \in LinesFailPoints }

HeaderRequests ==
  { LiqRequest("PatchLiquidacion", u, id, b, 0) :
      u \in {"uAdmin", "uView"}, id \in 1..(MaxLiq + 1), b \in HeaderPatches }

AnswerLiq(q, o) ==
  /\ liquidaciones' = o.db.liquidaciones
  /\ liquidacion_lines' = o.db.lineas
  /\ next_ent' = o.db.next_ent
  /\ res' = o.res
  /\ arg' = q
  /\ UNCHANGED <<bank_transactions, transaction_allocations, next_id,
                 facturas, payments, out>>

PostLiqReq ==
  /\ next_ent <= MaxLiq
  /\ \E q \in CreateRequests :
       AnswerLiq(q, PostLiquidacion(TheDb, q.user, q.body, q.failAt))

PutLinesReq ==
  \E q \in LinesRequests :
    AnswerLiq(q, PutLines(TheDb, q.user, q.id, q.body, q.failAt))

PatchLiqReq ==
  \E q \in HeaderRequests :
    AnswerLiq(q, PatchLiquidacion(TheDb, q.user, q.id, q.body, q.failAt))

ListLiqReq ==
  \E userId \in {"uAdmin", "uView"} :
    \E r \in ListEntities("ListLiquidaciones", liquidaciones_list(TheDb), userId,
                          NoQuery) :
      AnswerLiq(LiqRequest("ListLiquidaciones", userId, 0, NoLines, 0),
                [db |-> TheDb, res |-> r])

GetLiqReq ==
  \E userId \in {"uAdmin", "uView"}, id \in 1..(MaxLiq + 1) :
    \E r \in GetEntity("GetLiquidacion", liquidaciones_detail(TheDb), userId, id) :
      AnswerLiq(LiqRequest("GetLiquidacion", userId, id, NoLines, 0),
                [db |-> TheDb, res |-> r])

NextLiq == PostLiqReq \/ PutLinesReq \/ PatchLiqReq \/ ListLiqReq \/ GetLiqReq

SpecLiq == Init /\ [][NextLiq]_vars

(***************************************************************************)
(* Properties of the write endpoints (Spec)                                *)
(***************************************************************************)
AllocationsOf(txId) ==
  SelectSeq(transaction_allocations, LAMBDA a : a.transaction_id = txId)

StoreUnchanged ==
  /\ bank_transactions' = bank_transactions
  /\ transaction_allocations' = transaction_allocations

HasWriteScope(userId, f) ==
  \E a \in v_effective_fund_access :
    a.user_id = userId /\ a.fund_id = f /\ a.scope \in {"write", "admin"}

\* C1: every stored transaction has at least one allocation row and the
\* ratios of its rows sum to 1 within the tolerance of 1e-9.
C1_AllocationsSumToOne ==
  \A t \in bank_transactions :
    /\ AllocationsOf(t.id) # <<>>
    /\ Abs(SumRatios(AllocationsOf(t.id)) - ONE) <= TolNano

\* a committed PATCH has replaced the single allocation of a transaction
\* by a split over two funds
C1_Witness ==
  /\ res.op = "PatchTx" /\ res.status = 200 /\ res.committed
  /\ res.funds = {"fA", "fB"}
  /\ \E t \in bank_transactions :
       t.id = res.id /\ Len(AllocationsOf(t.id)) = 2

\* C2: a POST or PATCH that carries an effective allocation set persists
\* only when the caller has write or admin scope on every fund of the set;
\* when the caller lacks the scope on one of the funds the store is left as
\* it was and the response is 403 (400 when the body is rejected before the
\* gate, 500 when the store fails before the gate answers).
C2_FundGateFailsClosed ==
  [][ (res'.op \in {"PostTx", "PatchTx"} /\ res'.funds # {})
        => /\ res'.status \in {200, 201}
                => \A f \in res'.funds : HasWriteScope(res'.user, f)
           /\ (\E f \in res'.funds : ~HasWriteScope(res'.user, f))
                => /\ StoreUnchanged
                   /\ ~res'.committed
                   /\ res'.status \in {400, 403, 500}
                   /\ (res'.validated /\ ~res'.store_failed) => res'.status = 403
    ]_vars

\* an editor with write scope on fA and read scope on fB is refused a split
\* over both funds
C2_Witness ==
  /\ res.op = "PostTx" /\ res.user = "uEd" /\ res.funds = {"fA", "fB"}
  /\ res.status = 403 /\ res.rolledback
  /\ bank_transactions = {}

\* C5: a caller holding the admin or owner role is never refused by the
\* fund-scope gate, whatever its explicit grants.
C5_AdminPassesFundGate ==
  (res.op \in {"PostTx", "PatchTx"} /\ isAdmin(res.user)) => res.status # 403

\* C6: a PATCH that does not answer 200 leaves the transaction with its
\* original base fields and allocation rows, whichever statement failed.
C6_PatchIsAtomic ==
  [][ (res'.op = "PatchTx" /\ res'.status # 200) => StoreUnchanged ]_vars

\* the second insert of a two-way replacement failed (begin, set user,
\* gate, update, delete, insert, insert) and the transaction is still there
C6_Witness ==
  /\ res.op = "PatchTx" /\ res.status = 500 /\ res.store_failed
  /\ res.stmts = 7 /\ res.funds = {"fA", "fB"} /\ res.rolledback
  /\ \E t \in bank_transactions :
       t.id = res.id /\ Len(AllocationsOf(t.id)) = 1

\* the rows of a file that do not validate, by their line in the file
\* (the header is line 1)
FailingLines(rows) == { i + 1 : i \in { k \in 1..Len(rows) : RowIssues(rows[k]) # <<>> } }

\* C7: an import whose file has an invalid row answers 422, inserts nothing,
\* and its error list has one entry for every failing row, in file order,
\* with index = 0-based position + 2 and a non-empty message.
C7_ImportRejectsWholeBatch ==
  [][ (res'.op = "ImportCsv" /\ FailingLines(res'.file_rows) # {})
        => /\ res'.status = 422
           /\ StoreUnchanged
           /\ ~res'.committed
           /\ { res'.errors[k].index : k \in 1..Len(res'.errors) }
                = FailingLines(res'.file_rows)
           /\ Len(res'.errors) = Cardinality(FailingLines(res'.file_rows))
           /\ \A k \in 1..Len(res'.errors) : res'.errors[k].error # <<>>
           /\ \A k \in 1..(Len(res'.errors) - 1) :
                res'.errors[k].index < res'.errors[k + 1].index
    ]_vars

\* a file whose two rows are both invalid is answered with both lines
C7_Witness ==
  /\ res.op = "ImportCsv" /\ res.status = 422 /\ res.dry_run = "none"
  /\ Len(res.file_rows) = 2 /\ Len(res.errors) = 2
  /\ res.errors[1].index = 2 /\ res.errors[2].index = 3

\* C8: an import with dry_run=1 never changes the store, whether its rows
\* validate or not.
C8_DryRunNeverWrites ==
  [][ (res'.op = "ImportCsv" /\ res'.dry_run = "1")
        => StoreUnchanged /\ next_id' = next_id /\ ~res'.committed ]_vars

\* a dry run of a file with one valid row is answered 200 on an empty store
C8_Witness ==
  /\ res.op = "ImportCsv" /\ res.dry_run = "1" /\ res.status = 200
  /\ res.valid = 1 /\ Len(res.file_rows) = 1
  /\ bank_transactions = {}

\* C10: DELETE of an id that is not stored, by a caller who passes the admin
\* role gate, answers 404 (500 when the store fails), changes nothing and
\* commits nothing.
C10_DeleteMissingIs404 ==
  [][ (/\ res'.op = "DeleteTx"
       /\ "admin" \in user_roles[res'.user]
       /\ ~HasTx(TheDb, res'.id))
        => /\ StoreUnchanged
           /\ ~res'.committed
           /\ res'.status \in {404, 500}
           /\ ~res'.store_failed => (res'.status = 404 /\ res'.rolledback)
    ]_vars

\* the admin deleted a missing transaction: both sessions ran (gate 4
\* statements, handler begin, set user, begin, delete)
C10_Witness ==
  /\ res.op = "DeleteTx" /\ res.user = "uAdmin" /\ res.status = 404
  /\ res.rolledback /\ ~res.committed /\ res.stmts = 8
  /\ bank_transactions = {}

(***************************************************************************)
(* Properties of parseAmountLoose (SpecParse)                              *)
(***************************************************************************)
RECURSIVE Pow10(_)
Pow10(k) == IF k = 0 THEN 1 ELSE 10 * Pow10(k - 1)

\* the characters of a string that are digits, separators or '-'
Kept(s) == SelectSeq(s, LAMBDA c : c \in Digits \cup {".", ",", "-"})

Last(s, c) == IF Has(s, c) THEN lastIndexOf(s, c) ELSE -1

\* the value of a string with both separators, read with the separator
\* whose last occurrence is later as the decimal point and the other one
\* as a mark between thousands: an optional '-', digits, the decimal
\* point once, digits; anything else is no number
ReadWithLaterSeparator(s) ==
  LET k == Kept(s)
      dec == IF Last(k, ",") > Last(k, ".") THEN "," ELSE "."
      thou == IF dec = "," THEN "." ELSE ","
      t == SelectSeq(k, LAMBDA c : c # thou)
      u == IF t # <<>> /\ Head(t) = "-" THEN Tail(t) ELSE t
      at == { i \in 1..Len(u) : u[i] = dec }
      p == CHOOSE i \in at : TRUE
      int == SubSeq(u, 1, p - 1)
      frac == SubSeq(u, p + 1, Len(u))
      mag == DigitsToNat(int) * Pow10(Len(frac)) + DigitsToNat(frac)
      sign == IF Head(t) = "-" THEN -1 ELSE 1
  IN  IF /\ Cardinality(at) = 1
         /\ \A i \in 1..Len(u) : u[i] \in Digits \cup {dec}
         /\ Len(u) > 1
      THEN Normal(sign * mag, Len(frac))
      ELSE NoNumber

\* C9: when the string holds both '.' and ',' parseAmountLoose reads it
\* with the later of the two as decimal separator and the other as
\* thousands separator; "40.000,00" and "40,000.00" parse to 40000 and
\* "120" to 120.
C9_LaterSeparatorIsDecimal ==
  out.done =>
    /\ (Has(out.s, ".") /\ Has(out.s, ",")) => out.v = ReadWithLaterSeparator(out.s)
    /\ out.s = <<"4", "0", ".", "0", "0", "0", ",", "0", "0">> => out.v = Dec(40000)
    /\ out.s = <<"4", "0", ",", "0", "0", "0", ".", "0", "0">> => out.v = Dec(40000)
    /\ out.s = <<"1", "2", "0">> => out.v = Dec(120)

\* "40.000,00" has been parsed
C9_Witness ==
  /\ out.done
  /\ out.s = <<"4", "0", ".", "0", "0", "0", ",", "0", "0">>
  /\ out.v = Dec(40000)

(***************************************************************************)
(* Properties of the read endpoints (SpecRead)                             *)
(***************************************************************************)
ReadOps ==
  {"ListTx", "ListFacturas", "GetFactura", "ListPayments", "GetPayment",
   "ListLiquidaciones", "GetLiquidacion"}

ListOps == {"ListTx", "ListFacturas", "ListPayments", "ListLiquidaciones"}

\* the user is neither admin nor owner and the roles of the user grant
\* access to fund f only
OnlyFund(userId, f) ==
  /\ \A r \in user_roles[userId] : r \notin {"admin", "owner"}
  /\ { g.fund_id : g \in GrantsOf(userId) } = {f}

RowsOfFund(f) ==
  { r \in facturas \cup payments \cup liquidaciones : r.fund_id = f }

\* C3: a user who is neither admin nor owner and whose roles grant access
\* to fund A only never gets a row of another fund from the list and detail
\* reads of transactions, invoices, payments and settlements, whatever the
\* filters of the request.
C3_NoRowOfAnotherFund ==
  \A f \in Funds :
    (res.op \in ReadOps /\ OnlyFund(res.user, f))
      => \A k \in 1..Len(res.rows) : res.rows[k].fund_id = f

\* the viewer of fA listed without a fund filter while a row of fB was
\* stored, and got the row of fA only
C3_Witness ==
  /\ res.op \in ListOps /\ res.user = "uView" /\ res.status = 200
  /\ res.funds = {}
  /\ RowsOfFund("fB") # {}
  /\ Len(res.rows) = 1 /\ res.rows[1].fund_id = "fA"

\* C4: an admin or owner without any role-fund grant gets every fund from
\* GET /funds.
C4_AdminListsAllFunds ==
  (/\ res.op = "ListFunds"
   /\ isAdmin(res.user)
   /\ GrantsOf(res.user) = {})
    => { res.rows[k].fund_id : k \in 1..Len(res.rows) } = Funds

DetailOps == {"GetFactura", "GetPayment", "GetLiquidacion"}

\* the table a detail read reads
TableOf(op) ==
  CASE op = "GetFactura" -> facturas
    [] op = "GetPayment" -> payments
    [] op = "GetLiquidacion" -> liquidaciones_detail(TheDb)

\* the user is neither admin nor owner and no role of the user has a grant
\* on the fund
Inaccessible(userId, f) ==
  /\ ~isAdmin(userId)
  /\ \A g \in GrantsOf(userId) : g.fund_id # f

\* the store without the rows of the funds the user cannot access
WithoutInaccessible(table, userId) ==
  { r \in table : ~Inaccessible(userId, r.fund_id) }

\* C12: for every caller and every id, the detail read of invoices,
\* payments and settlements answers on the store as it answers on the store
\* without the rows of the funds the caller cannot access; and the answer
\* given for an id that names no row or a row of an inaccessible fund is
\* the 404 given on an empty table.
C12_DetailHidesExistence ==
  /\ \A op \in DetailOps, u \in Users, id \in EntityIds :
       GetEntity(op, TableOf(op), u, id)
         = GetEntity(op, WithoutInaccessible(TableOf(op), u), u, id)
  /\ (/\ res.op \in DetailOps
      /\ \A r \in TableOf(res.op) :
           r.id = res.id => Inaccessible(res.user, r.fund_id))
       => /\ res.status = 404
          /\ res \in GetEntity(res.op, {}, res.user, res.id)

\* the viewer of fA asked for a stored row of fB and was answered 404
C12_Witness ==
  /\ res.op \in DetailOps /\ res.user = "uView" /\ res.status = 404
  /\ \E r \in TableOf(res.op) : r.id = res.id /\ r.fund_id = "fB"

(***************************************************************************)
(* Properties of allocation sets (SpecAlloc)                               *)
(***************************************************************************)
\* the request carries no fund_id and no or an empty allocations array
PostWithoutFund(body) ==
  /\ body.fund_id = NoFund
  /\ ~body.has_allocations \/ body.allocations = <<>>

\* the request carries allocations = [] and no fund_id
PatchWithEmptySet(body) ==
  /\ body.fund_id = NoFund
  /\ body.has_allocations /\ body.allocations = <<>>

\* the explicit allocation set a request asks to store: the allocations
\* array of a POST, and of a PATCH without fund_id (<<>> when there is none)
ExplicitSet(op, body) ==
  IF ~body.has_allocations THEN <<>>
  ELSE IF op = "PatchTx" /\ body.fund_id # NoFund THEN <<>>
  ELSE body.allocations

\* C14: a POST without fund_id and without a non-empty allocations array,
\* and a PATCH with allocations = [] and no fund_id, leave the stored
\* transactions and allocations as they were and answer 400 (500 when the
\* store fails the session before the handler rejects).
C14_EmptySetRejected ==
  [][ (\/ res'.op = "PostTx" /\ PostWithoutFund(arg'.body)
       \/ res'.op = "PatchTx" /\ PatchWithEmptySet(arg'.body))
        => /\ StoreUnchanged
           /\ ~res'.committed
           /\ res'.status \in {400, 500}
           /\ ~res'.store_failed => res'.status = 400
    ]_vars

\* a PATCH with allocations = [] was refused while the transaction it names
\* is stored with its allocation
C14_Witness ==
  /\ res.op = "PatchTx" /\ res.status = 400 /\ res.rolledback
  /\ arg.body.has_allocations /\ arg.body.allocations = <<>>
  /\ arg.body.fund_id = NoFund
  /\ \E t \in bank_transactions : t.id = res.id /\ AllocationsOf(t.id) # <<>>

\* C15: an explicit allocation set whose ratios sum to 0.999999999 or less,
\* or to more than 1.000000001, is answered 400.
C15_SumOffToleranceRejected ==
  (/\ res.op \in {"PostTx", "PatchTx"}
   /\ ExplicitSet(res.op, arg.body) # <<>>
   /\ \/ SumRatios(ExplicitSet(res.op, arg.body)) <= ONE - TolNano
      \/ SumRatios(ExplicitSet(res.op, arg.body)) > ONE + TolNano)
    => res.status = 400

\* the effective allocation set of a request: the explicit set, else the
\* fund_id shortcut
RequestedSet(op, body) ==
  IF op = "PostTx"
  THEN IF body.has_allocations /\ body.allocations # <<>> THEN body.allocations
       ELSE IF body.fund_id # NoFund
            THEN <<[fund_id |-> body.fund_id, ratio |-> ONE]>> ELSE <<>>
  ELSE IF body.fund_id # NoFund THEN <<[fund_id |-> body.fund_id, ratio |-> ONE]>>
       ELSE IF body.has_allocations THEN body.allocations ELSE <<>>

\* the request asks for an allocation set (a PATCH may ask for none)
AsksForSet(op, body) ==
  op = "PostTx" \/ body.fund_id # NoFund \/ body.has_allocations

\* the body passes the schema of the handler
BodyParses(op, body) ==
  IF op = "PostTx" THEN TxInputValid(body) ELSE TxPartialValid(body)

\* the sum of the set is off by more than the tolerance
SumOff(allocations) == Abs(SumRatios(allocations) - ONE) > TolNano

LacksScope(userId, allocations) ==
  \E i \in 1..Len(allocations) : ~HasWriteScope(userId, allocations[i].fund_id)

\* the sum of the set differs from 1 by less than the tolerance
SumWithin(allocations) == Abs(SumRatios(allocations) - ONE) < TolNano

\* C19: POST and PATCH stop at the first failing step of: empty set, ratio
\* sum, fund scope, writes.  An empty set and a set whose sum is off by more
\* than the tolerance are refused 400, also when the caller lacks the scope;
\* a request refused 400 has issued no statement (POST) or only begin and
\* set_current_user (PATCH); a set within the tolerance on a fund of which
\* the caller lacks the scope is refused 403; a request refused 403 has
\* issued the gate query as its third and last statement; and the store
\* changes only for a non-empty set whose sum is not off and on whose funds
\* the caller has write or admin scope, after the gate.
C19_ChecksBeforeWrites ==
  [][ (res'.op \in {"PostTx", "PatchTx"} /\ ~res'.store_failed
       /\ BodyParses(res'.op, arg'.body)
       /\ AsksForSet(res'.op, arg'.body))
        => LET set == RequestedSet(res'.op, arg'.body)
           IN  /\ (set = <<>> \/ SumOff(set)) => res'.status = 400
               /\ res'.status = 400
                    => /\ res'.stmts = IF res'.op = "PostTx" THEN 0 ELSE 2
                       /\ StoreUnchanged
               /\ (set # <<>> /\ SumWithin(set) /\ LacksScope(res'.user, set))
                    => res'.status = 403
               /\ res'.status = 403
                    => /\ set # <<>> /\ ~SumOff(set) /\ LacksScope(res'.user, set)
                       /\ res'.stmts = 3
                       /\ StoreUnchanged
               /\ ~StoreUnchanged
                    => /\ set # <<>>
                       /\ ~SumOff(set)
                       /\ ~LacksScope(res'.user, set)
                       /\ res'.stmts > 3
    ]_vars

\* an editor without write scope on fB asked for a split whose sum is off:
\* refused for the sum, before the gate
C19_Witness ==
  /\ res.op = "PostTx" /\ res.user = "uEd" /\ res.status = 400
  /\ res.stmts = 0
  /\ Len(arg.body.allocations) = 2
  /\ SumOff(arg.body.allocations)
  /\ LacksScope("uEd", arg.body.allocations)

(***************************************************************************)
(* Properties of the role gate (SpecGate)                                  *)
(***************************************************************************)
GatedOps == {"DeleteTx", "PostFactura"}

\* the rows the gated endpoints write
GatedStoreUnchanged ==
  /\ bank_transactions' = bank_transactions
  /\ transaction_allocations' = transaction_allocations
  /\ facturas' = facturas
  /\ next_ent' = next_ent

\* C18: requireRole('admin') admits a user exactly when the list and detail
\* filters treat the user as admin (a role whose lower-cased name is admin
\* or owner).
C18_GateAgreesWithFilters ==
  (res.op \in GatedOps /\ ~res.store_failed)
    => (res.status # 403 <=> isAdmin(res.user))

\* C20: behind requireRole('admin') a user without the admin role is
\* answered 403 (500 when the gate's connection or one of its statements
\* fails) within the four statements of the gate's session; a failure of
\* the gate's connection or statements is answered 500; in both cases the
\* store is left as it was; and the store changes only for a user who holds
\* the role, after the gate's session.
C20_RoleGateFailsClosed ==
  [][ res'.op \in GatedOps
        => /\ "admin" \notin user_roles[res'.user]
                => /\ res'.status = IF res'.store_failed THEN 500 ELSE 403
                   /\ res'.stmts <= 4
                   /\ ~res'.store_failed => res'.stmts = 4
                   /\ GatedStoreUnchanged
           /\ (res'.store_failed /\ res'.stmts <= 4)
                => res'.status = 500 /\ GatedStoreUnchanged
           /\ ~GatedStoreUnchanged
                => "admin" \in user_roles[res'.user] /\ res'.stmts > 4
    ]_vars

\* the membership query of a manager's DELETE failed while the transaction
\* was stored: 500 at the third statement, the transaction still there
C20_Witness ==
  /\ res.op = "DeleteTx" /\ res.user = "uMgr" /\ res.status = 500
  /\ res.store_failed /\ res.stmts = 3
  /\ HasTx(TheDb, res.id)

(***************************************************************************)
(* Properties of authentication (SpecAuth)                                 *)
(***************************************************************************)
\* the prefixes of the protected routes
ProtectedHeads ==
  {<<"me">>, <<"funds">>, <<"transactions">>, <<"categories">>, <<"clients">>,
   <<"providers">>, <<"liquidaciones">>, <<"cuentas-lospipinos">>,
   <<"facturas">>, <<"payments">>}

IsProtected(req) == \E h \in ProtectedHeads : IsPrefix(h, req.path)

\* a bearer token that verifies and carries a subject
ValidCredential(hdr) ==
  hdr.scheme = "Bearer" /\ hdr.token.sig = "ok" /\ hdr.token.sub # NoSub

\* C13: the handler of a protected router (POST /transactions/import
\* included) is reached only by a request whose bearer token verifies and
\* carries a subject, with req.user set to that subject; a request to a
\* protected path without such a token is answered 401, reaches no handler,
\* issues no statement and leaves the store as it was.
C13_NoHandlerWithoutAuth ==
  [][ /\ (out'.handler # NoHandler /\ out'.handler.router \notin PublicRouters)
           => /\ ValidCredential(arg'.hdr)
              /\ out'.user = arg'.hdr.token.sub
              /\ res'.user = arg'.hdr.token.sub
      /\ (IsProtected(arg') /\ ~ValidCredential(arg'.hdr))
           => /\ res'.status = 401
              /\ out'.handler = NoHandler
              /\ res'.stmts = 0
              /\ StoreUnchanged /\ next_id' = next_id
    ]_vars

\* POST /transactions/import with a token that does not verify: 401 from
\* the auth of the /transactions mount, the import router is not reached
C13_Witness ==
  /\ arg \in HttpRequests
  /\ arg.method = "POST" /\ arg.path = <<"transactions", "import">>
  /\ arg.hdr.scheme = "Bearer" /\ arg.hdr.token.sig = "bad"
  /\ res.status = 401 /\ out.handler = NoHandler /\ res.stmts = 0

(***************************************************************************)
(* Properties of settlements (SpecLiq)                                     *)
(***************************************************************************)
LiqStoreUnchanged ==
  /\ liquidaciones' = liquidaciones
  /\ liquidacion_lines' = liquidacion_lines

\* C16 as stated: a POST /liquidaciones with an empty facturas array by a
\* caller who holds the admin role is answered 400 before any statement of
\* the request has run.
C16_RejectedBeforeAnyStatement ==
  (/\ res.op = "PostLiquidacion"
   /\ "admin" \in user_roles[res.user]
   /\ ~res.store_failed
   /\ arg.body.facturas = <<>>)
    => res.status = 400 /\ res.stmts = 0

\* C16: a POST /liquidaciones with an empty facturas array creates no header
\* row and no line row; for a caller who holds the admin role it is answered
\* 400 after the four statements of the role gate's session and before any
\* statement of the handler; a caller without the role is answered 403.
C16_NoInvoiceLineRejected ==
  [][ (res'.op = "PostLiquidacion" /\ arg'.body.facturas = <<>>)
        => /\ LiqStoreUnchanged /\ next_ent' = next_ent
           /\ res'.stmts <= 4
           /\ ~res'.store_failed
                => /\ res'.stmts = 4
                   /\ res'.status = IF "admin" \in user_roles[res'.user]
                                    THEN 400 ELSE 403
    ]_vars

\* the admin sent a body with an expense line and no invoice line: 400 and
\* an empty store
C16_Witness ==
  /\ res.op = "PostLiquidacion" /\ res.user = "uAdmin" /\ res.status = 400
  /\ arg.body.facturas = <<>> /\ arg.body.detalle_gastos # <<>>
  /\ liquidaciones = {} /\ liquidacion_lines = {}

\* the number of bulk inserts a body causes among the first `last` tables
BulkCount(body, last) ==
  Cardinality({ i \in 1..last : ItemsOf(body, LineTables[i]) # <<>> })

\* the number of the handler's commit among the statements of a request:
\* the gate's session (4), begin, set_current_user, begin, then the header
\* and the bulk inserts of a create, or the five deletes and the bulk
\* inserts of a line replacement
HandlerCommit(op, body) ==
  IF op = "PostLiquidacion" THEN 4 + 3 + 1 + BulkCount(body, 6) + 1
  ELSE 4 + 3 + 5 + BulkCount(body, 5) + 1

\* the rows of a table of a settlement are the items of the body
StoredAsGiven(id, body, last) ==
  \A i \in 1..last :
    Cardinality({ r \in liquidacion_lines' :
                    r.liquidacion_id = id /\ r.table = LineTables[i] })
      = Len(ItemsOf(body, LineTables[i]))

\* C17: a create or a line replacement that is not answered 201 or 200 and
\* in which no statement after the handler's commit failed (so: refused, or
\* one of begin, the header insert, the deletes, the bulk inserts or the
\* commit failed) leaves headers and line rows as they were, and a failure
\* is answered 500; a create answered 201 has stored the header and every
\* array of the body, a replacement answered 200 every array of the body.
C17_SettlementWritesAtomic ==
  [][ res'.op \in {"PostLiquidacion", "PutLines"}
        => /\ (/\ res'.status \notin {200, 201}
               /\ res'.stmts <= HandlerCommit(res'.op, arg'.body))
                => LiqStoreUnchanged
           /\ res'.store_failed => res'.status = 500
           /\ res'.status = 201
                => /\ \E l \in liquidaciones' \ liquidaciones : l.id = res'.id
                   /\ StoredAsGiven(res'.id, arg'.body, 6)
           /\ (res'.status = 200 /\ \E l \in liquidaciones : l.id = res'.id)
                => /\ liquidaciones' = liquidaciones
                   /\ StoredAsGiven(res'.id, arg'.body, 5)
    ]_vars

\* the second bulk insert of a line replacement failed (statement 14: the
\* gate's four, begin, set_current_user, begin, five deletes, two inserts)
\* and the invoice line of the settlement is still there
C17_Witness ==
  /\ res.op = "PutLines" /\ res.status = 500 /\ res.store_failed
  /\ res.stmts = 14 /\ res.rolledback
  /\ arg.body.facturas = <<3000>>
  /\ \E r \in liquidacion_lines :
       r.liquidacion_id = res.id /\ r.table = "facturas" /\ r.monto = 1000

\* ingreso_banco - impositivo - sum(expenses) - sum(work items)
\* - sum(negative balances) + sum(positive balances) of a stored settlement,
\* in units of 0.001
ExactTotal(l) ==
  LET sum(t) == SumMonto({ r \in liquidacion_lines :
                             r.liquidacion_id = l.id /\ r.table = t })
  IN  l.ingreso_banco - l.impositivo - sum("gastos") - sum("trabajos")
        - sum("saldos_negativos") + sum("saldos_positivos")

\* n is a number with at most two decimals that is nearest to x/1000
IsRounded(n, x) ==
  \E c \in (x \div 10 - 1)..(x \div 10 + 1) :
    n = Normal(c, 2) /\ Abs(10 * c - x) <= 5

\* the value of a total as a response carries it: a string in the list, a
\* number in the detail
TotalValue(op, row) ==
  IF op = "ListLiquidaciones" THEN Number(row.total_final) ELSE row.total_final

\* C11: in every reachable store the list and the detail give every
\* settlement the same total_final, the formula over the stored header and
\* line rows rounded to 2 decimals; and every row a list or detail read has
\* returned carries that value.
C11_TotalFromStoredRows ==
  /\ \A l \in liquidaciones :
       /\ \A r \in liquidaciones_list(TheDb) :
            r.id = l.id => IsRounded(Number(r.total_final), ExactTotal(l))
       /\ \A r \in liquidaciones_detail(TheDb) :
            r.id = l.id => IsRounded(r.total_final, ExactTotal(l))
       /\ \A r \in liquidaciones_list(TheDb), t \in liquidaciones_detail(TheDb) :
            r.id = t.id => Number(r.total_final) = t.total_final
  /\ res.op \in {"ListLiquidaciones", "GetLiquidacion"}
       => \A k \in 1..Len(res.rows) :
            \E l \in liquidaciones :
              /\ l.id = res.rows[k].id
              /\ IsRounded(TotalValue(res.op, res.rows[k]), ExactTotal(l))

\* after the header amount was patched to 2.004 and the lines were replaced
\* by an expense of 1.005 and a positive balance of 0.01, the detail
\* returns 1.01
C11_Witness ==
  /\ res.op = "GetLiquidacion" /\ res.status = 200
  /\ \E l \in liquidaciones : l.id = res.id /\ l.ingreso_banco = 2004
  /\ \E r \in liquidacion_lines : r.liquidacion_id = res.id /\ r.monto = 1005
  /\ res.rows[1].total_final = Normal(101, 2)

(***************************************************************************)
(* Further properties of the write endpoints (Spec)                        *)
(***************************************************************************)
\* the statement that failed is one of the inserts of the request: for POST
\* the statements after begin, set_current_user and the gate (its commit
\* is the last of them); for the importer the two inserts per row after begin,
\* set_current_user and the handler's begin
InsertFailed(r) ==
  /\ r.store_failed
  /\ \/ r.op = "PostTx" /\ r.stmts >= 4
     \/ r.op = "ImportCsv" /\ r.stmts \in 4..(3 + 2 * r.valid)

\* C23: when the insert of a transaction row or of an allocation row fails
\* during POST /transactions or during the insertion phase of a validated,
\* non-dry-run import, none of the request's rows is stored, those inserted
\* before the failing statement included, and the answer is 500.
C23_MultiRowWritesAtomic ==
  [][ InsertFailed(res')
        => /\ StoreUnchanged
           /\ next_id' = next_id
           /\ ~res'.committed /\ res'.rolledback
           /\ res'.status = 500
    ]_vars

\* the allocation insert of the second row of a two-row file failed (begin,
\* set user, begin, four inserts) and the store is still empty
C23_Witness ==
  /\ res.op = "ImportCsv" /\ res.status = 500 /\ res.store_failed
  /\ res.valid = 2 /\ res.stmts = 7 /\ res.rolledback
  /\ bank_transactions = {} /\ transaction_allocations = <<>>

\* C24: a PATCH of an id that matches no stored transaction never answers
\* 200, changes nothing, and, when its body is accepted, the fund gate lets
\* it through and the store does not fail, answers 404.
C24_PatchMissingIs404 ==
  [][ (res'.op = "PatchTx" /\ ~HasTx(TheDb, res'.id))
        => /\ res'.status # 200
           /\ StoreUnchanged
           /\ (res'.validated /\ ~res'.store_failed /\ res'.status # 403)
                => res'.status = 404
    ]_vars

\* the funds a transaction is allocated to before the request
CurrentFunds(txId) ==
  { AllocationsOf(txId)[i].fund_id : i \in 1..Len(AllocationsOf(txId)) }

\* C27: a PATCH changes the base fields or the allocation rows of a
\* transaction only when the caller is admin or owner, or has write or admin
\* scope on every fund the transaction is allocated to before the request.
C27_PatchNeedsScopeOnCurrentFunds ==
  [][ (res'.op = "PatchTx" /\ ~StoreUnchanged)
        => \/ isAdmin(res'.user)
           \/ \A f \in CurrentFunds(res'.id) : HasWriteScope(res'.user, f)
    ]_vars

\* the funds named by the rows of an uploaded file
FileFunds(rows) == { rows[i].fund_id : i \in 1..Len(rows) } \cap Funds

\* C28: every allocation row stored by an import names a fund on which the
\* importing user has write or admin scope (or the user is admin or owner),
\* and an import whose file has a row for a fund the user may not write
\* stores nothing.
C28_ImportNeedsWriteScope ==
  [][ (res'.op = "ImportCsv" /\ ~isAdmin(res'.user))
        => /\ \A i \in 1..Len(transaction_allocations') :
                transaction_allocations'[i].transaction_id >= next_id
                  => HasWriteScope(res'.user, transaction_allocations'[i].fund_id)
           /\ (\E f \in FileFunds(res'.file_rows) : ~HasWriteScope(res'.user, f))
                => StoreUnchanged
    ]_vars

\* a number that is zero or negative
ZeroOrNegative(x) == x # NoNumber /\ x.num <= 0

\* C25: after every request each stored transaction has an amount above
\* zero and the type credit or debit, and an import whose file has a row
\* with an amount that parses to zero or to a negative number answers 422,
\* reports that row's amount and stores nothing.
C25_StoredAmountsUnsigned ==
  [][ /\ \A t \in bank_transactions' :
           t.amount # NoNumber /\ t.amount.num > 0 /\ t.type \in TxTypes
      /\ res'.op = "ImportCsv"
           => \A k \in 1..Len(res'.file_rows) :
                ZeroOrNegative(parseAmountLoose(res'.file_rows[k].amount))
                  => /\ res'.status = 422
                     /\ StoreUnchanged
                     /\ \E e \in 1..Len(res'.errors) :
                          /\ res'.errors[e].index = k + 1
                          /\ Has(res'.errors[e].error, "amount")
    ]_vars

\* a transaction is stored, and a file whose only fault is the amount -1 of
\* its first row was answered 422 with that line reported
C25_Witness ==
  /\ bank_transactions # {}
  /\ res.op = "ImportCsv" /\ res.status = 422 /\ res.dry_run = "none"
  /\ Len(res.file_rows) >= 1
  /\ res.file_rows[1] = [amount |-> <<"-", "1">>, type |-> "debit", fund_id |-> "fA"]
  /\ res.errors[1] = [index |-> 2, error |-> <<"amount">>]

(***************************************************************************)
(* Further properties of settlements (SpecLiq)                             *)
(***************************************************************************)
\* C29: every stored settlement has at least one invoice line, and a line
\* replacement for an id that is not stored never answers 200.
C29_SettlementKeepsInvoiceLine ==
  /\ \A l \in liquidaciones : LinesIn(TheDb, l.id, "facturas") # {}
  /\ (res.op = "PutLines" /\ res.status = 200) => HasLiquidacion(TheDb, res.id)

(***************************************************************************)
(* Login (src/routes/auth.ts).  app.users is fixed data of the model: an   *)
(* active user with a hash, a second one, an inactive user with a hash, an *)
(* active user without a hash and an inactive one without.  A password is  *)
(* a string; a hash keeps the password under its scheme.                   *)
(***************************************************************************)
\* a null password_hash
NoHash == [scheme |-> "none", of |-> ""]

\* bcrypt.hashSync(password, 10)
hashSync(password) == [scheme |-> "2a", of |-> password]

\* a comparison that accepts every password
compareSync_Always(password, hash) == TRUE

\* bcrypt.compareSync(password, hash)
compareSync(password, hash) == hash.scheme = "2a" /\ hash.of = password

app_users ==
  { [id |-> "uMgr", email |-> "mgr@x.io", password_hash |-> hashSync("pw1"),
     is_active |-> TRUE],
    [id |-> "uEd", email |-> "ed@x.io", password_hash |-> hashSync("pw2"),
     is_active |-> TRUE],
    [id |-> "uView", email |-> "view@x.io", password_hash |-> hashSync("pw1"),
     is_active |-> FALSE],
    [id |-> "uCaps", email |-> "caps@x.io", password_hash |-> NoHash,
     is_active |-> TRUE],
    [id |-> "uOwner", email |-> "owner@x.io", password_hash |-> NoHash,
     is_active |-> FALSE] }

\* z.string().email(): the addresses of the model that are well formed
EmailAddresses ==
  { "mgr@x.io", "ed@x.io", "view@x.io", "caps@x.io", "owner@x.io", "nobody@x.io" }

\* LoginSchema.safeParse: email an address, password of at least one character
LoginSchemaValid(body) == body.email \in EmailAddresses /\ body.password # ""

\* jwt.sign({ sub }, JWT_SECRET, { algorithm: 'HS256', ... }): a token that
\* verifies under the same secret
sign(sub) == [sig |-> "ok", sub |-> sub]

\* the response of the login route
LoginResp(status, error, token, userId) ==
  [status |-> status, error |-> error, token |-> token, user |-> userId]

InvalidCredentials == LoginResp(401, "invalid credentials", EmptyToken, NoUser)

\* router.post('/login'); hasSecret: process.env.JWT_SECRET is set; failAt
\* fails pool.connect() or the one query of withConn
Login(body, hasSecret, failAt) ==
  LET rows == { u \in app_users : u.email = body.email }
      issue(user) ==
        IF ~hasSecret
        THEN LoginResp(500, "server misconfigured: JWT_SECRET", EmptyToken, NoUser)
        ELSE LoginResp(200, "", sign(user.id), user.id)
      check(user) ==
        IF ~user.is_active \/ user.password_hash = NoHash THEN InvalidCredentials
        ELSE IF ~compareSync(body.password, user.password_hash) THEN InvalidCredentials
        ELSE issue(user)
  IN  IF ~LoginSchemaValid(body)
      THEN LoginResp(400, "invalid payload", EmptyToken, NoUser)
      ELSE IF failAt # 0 THEN LoginResp(500, "login failed", EmptyToken, NoUser)
      ELSE IF rows = {} THEN InvalidCredentials
      ELSE check(CHOOSE u \in rows : TRUE)

LoginRequests ==
  [email : EmailAddresses \cup {"not an address"},
   password : {"", "pw1", "pw2", "pw3"},
   hasSecret : BOOLEAN,
   failAt : {0, ConnectFails, 1}]

LoginReq ==
  \E q \in LoginRequests :
    /\ arg' = q
    /\ out' = Login([email |-> q.email, password |-> q.password], q.hasSecret, q.failAt)
    /\ UNCHANGED <<bank_transactions, transaction_allocations, next_id, facturas,
                   payments, liquidaciones, liquidacion_lines, next_ent, res>>

NextLogin == LoginReq

SpecLogin == Init /\ [][NextLogin]_vars

(***************************************************************************)
(* Properties of the login (SpecLogin)                                     *)
(***************************************************************************)
\* the user a request authenticates: stored under the email, active, with
\* a hash, and the hash is the one of the supplied password
Authenticates(q, u) ==
  /\ u.email = q.email
  /\ u.is_active
  /\ u.password_hash # NoHash
  /\ u.password_hash = hashSync(q.password)

\* C30: a login issues a token only for a stored, active user with a hash
\* that the supplied password matches, and the token's subject, as the auth
\* middleware reads it, is that user's id; a well-formed request that
\* authenticates nobody (unknown email, inactive user, no hash, wrong
\* password) gets the one response 401 'invalid credentials', whichever
\* condition failed.
C30_LoginIssuesTokenOnlyOnMatch ==
  arg \in LoginRequests
    => /\ out.token # EmptyToken => out.status = 200
       /\ out.status = 200
            => \E u \in app_users :
                 /\ Authenticates(arg, u)
                 /\ out.token.sub = u.id
                 /\ auth([scheme |-> "Bearer", token |-> out.token])
                      = [status |-> 0, user |-> u.id]
       /\ (/\ LoginSchemaValid(arg)
           /\ arg.failAt = 0
           /\ ~\E u \in app_users : Authenticates(arg, u))
            => out = InvalidCredentials

\* the manager logged in with the right password and holds a token for
\* uMgr
C30_Witness ==
  /\ arg \in LoginRequests
  /\ arg.email = "mgr@x.io" /\ arg.password = "pw1"
  /\ out.status = 200 /\ out.token = [sig |-> "ok", sub |-> "uMgr"]

(***************************************************************************)
(* Units of work on the pooled connection, statement by statement          *)
(* (src/db.ts, src/routes/me.ts).  The pool hands the idle client of the   *)
(* previous request to the next one, with whatever its session holds: the  *)
(* marker of app.set_current_user (field user of the connection) and an    *)
(* open block.  A run records every statement it sent (log), the first     *)
(* error raised and the error that leaves the unit.  Here the rollback of  *)
(* a catch is a statement like the others: it is rejected when the         *)
(* connection is lost.                                                     *)
(***************************************************************************)
NoErr == [status |-> 0, stmt |-> 0]

\* the error of statement n, or an error thrown with a status by the code
Err(status, n) == [status |-> status, stmt |-> n]

\* a failure of the store: statement `at` is rejected (0: none); when the
\* connection is lost every later statement is rejected too
NoFailure == [at |-> 0, lost |-> FALSE]

\* the session after its connection is lost: the server discards the open
\* block, and the pool opens a new connection for the next request
Lost(c) ==
  [c EXCEPT !.work = c.durable, !.inTx = FALSE, !.aborted = FALSE, !.user = "none"]

\* pool.connect(): the idle client with the marker its session holds;
\* marked says that set_current_user ran for this request in the open block
PoolClient(c) ==
  [conn |-> [c EXCEPT !.committed = FALSE, !.rolledback = FALSE],
   n |-> 0, err |-> NoErr, first |-> NoErr, marked |-> FALSE,
   resolved |-> FALSE, released |-> 0, log |-> <<>>]

\* the end of a block: a marker set with set_config(..., is_local) goes with
\* the block, a session-level one stays on the connection (the function is
\* not in src/; local is either)
EndOfBlock(before, after, local) ==
  IF before.inTx /\ ~after.inTx /\ local THEN [after EXCEPT !.user = "none"]
  ELSE after

\* c.query(...): statement n + 1 of the request.  It is rejected when the
\* store fails it, when the connection was lost before, and, for anything
\* but commit and rollback, when the block is aborted; a rejected rollback
\* means the connection is gone
Send(u, f, local, kind, next) ==
  IF u.err # NoErr THEN u
  ELSE IF \/ u.n + 1 = f.at
          \/ f.lost /\ f.at > 0 /\ u.n + 1 > f.at
          \/ u.conn.aborted /\ kind \notin {"commit", "rollback"}
       THEN [u EXCEPT !.n = u.n + 1,
                      !.conn = IF f.lost \/ kind = "rollback" THEN Lost(u.conn)
                               ELSE Failed(u.conn),
                      !.err = Err(StoreErr, u.n + 1),
                      !.first = IF u.first = NoErr THEN Err(StoreErr, u.n + 1) ELSE @,
                      !.marked = IF f.lost \/ kind = "rollback" THEN FALSE ELSE @,
                      !.log = Append(@, [stmt |-> kind, ok |-> FALSE,
                                         marker |-> u.conn.user,
                                         marked |-> u.marked /\ u.conn.inTx])]
       ELSE [u EXCEPT !.n = u.n + 1,
                      !.conn = EndOfBlock(u.conn, next, local),
                      !.marked = IF kind = "set_current_user" THEN u.conn.inTx
                                 ELSE IF next.inTx THEN @ ELSE FALSE,
                      !.log = Append(@, [stmt |-> kind, ok |-> TRUE,
                                         marker |-> u.conn.user,
                                         marked |-> u.marked /\ u.conn.inTx])]

\* catch (e) { await c.query('rollback'); throw e; }: when the rollback is
\* rejected its error leaves the catch and e is never thrown
CatchRollback(u, f, local) ==
  LET rethrow(r) == IF r.err # NoErr THEN r ELSE [r EXCEPT !.err = u.err]
  IN  IF u.err = NoErr THEN u
      ELSE rethrow(Send([u EXCEPT !.err = NoErr], f, local, "rollback",
                        QRollback(u.conn)))

\* throw of an error that carries a status
Raise(u, status) ==
  IF u.err # NoErr THEN u
  ELSE [u EXCEPT !.err = Err(status, 0),
                 !.first = IF u.first = NoErr THEN Err(status, 0) ELSE @]

RECURSIVE Statements(_, _, _, _, _)
\* the statements of a callback, in order: a select on
\* app.v_effective_fund_access, an insert, or a throw with a status
Statements(u, f, local, steps, i) ==
  IF i > Len(steps) THEN u
  ELSE Statements(
         CASE steps[i] = "v_effective_fund_access"
                -> Send(u, f, local, "v_effective_fund_access", u.conn)
           [] steps[i] = "insert"
                -> Send(u, f, local, "insert",
                        Write(u.conn, InsertTx(u.conn.work, Dec(1), "credit")))
           [] OTHER -> Raise(u, 403),
         f, local, steps, i + 1)

\* a callback of withUser: the gate and the inserts of POST /transactions
\* (not nested), or a handler that issues its own begin, its statements and
\* commit, and rolls back and rethrows in its catch (nested)
Callback(u, f, local, cb) ==
  LET begin(b) == Send(b, f, local, "begin", QBegin(b.conn))
      commit(b) == Send(b, f, local, "commit", QCommit(b.conn))
      resolve(b) == IF b.err = NoErr THEN [b EXCEPT !.resolved = TRUE] ELSE b
  IN  IF u.err # NoErr THEN u
      ELSE IF cb.nested
      THEN resolve(CatchRollback(commit(Statements(begin(u), f, local, cb.steps, 1)),
                                 f, local))
      ELSE resolve(Statements(u, f, local, cb.steps, 1))

\* withUser(userId, fn), statement by statement: connect, begin,
\* set_current_user, fn, commit; catch: rollback, throw e; finally: release
withUserSteps(c, userId, f, local, cb) ==
  LET begin(u) == Send(u, f, local, "begin", QBegin(u.conn))
      set_current_user(u) ==
        Send(u, f, local, "set_current_user", SetCurrentUser(u.conn, userId))
      commit(u) == Send(u, f, local, "commit", QCommit(u.conn))
      finally(u) == [u EXCEPT !.released = @ + 1]
  IN  IF f.at = ConnectFails
      THEN [PoolClient(c) EXCEPT !.err = Err(StoreErr, 0), !.first = Err(StoreErr, 0)]
      ELSE finally(CatchRollback(
             commit(Callback(set_current_user(begin(PoolClient(c))), f, local, cb)),
             f, local))

\* withConn(fn) of GET /me: connect, the selects on app.users, app.user_roles
\* and app.v_effective_fund_access, release; no begin, no set_current_user
withConn(c, f, local) ==
  LET users(u) == Send(u, f, local, "users", u.conn)
      roles(u) == Send(u, f, local, "user_roles", u.conn)
      fund_access(u) == Send(u, f, local, "v_effective_fund_access", u.conn)
      resolve(u) == IF u.err = NoErr THEN [u EXCEPT !.resolved = TRUE] ELSE u
      finally(u) == [u EXCEPT !.released = @ + 1]
  IN  IF f.at = ConnectFails
      THEN [PoolClient(c) EXCEPT !.err = Err(StoreErr, 0), !.first = Err(StoreErr, 0)]
      ELSE finally(resolve(fund_access(roles(users(PoolClient(c))))))

\* the callbacks of the handlers: the fund gate alone and with the inserts
\* of POST /transactions, a gate that refuses, and the handlers with their
\* own begin and commit (one and two inserts, and one that throws)
Callbacks ==
  { [nested |-> FALSE, steps |-> <<"v_effective_fund_access">>],
    [nested |-> FALSE, steps |-> <<"v_effective_fund_access", "insert">>],
    [nested |-> FALSE, steps |-> <<"v_effective_fund_access", "throw">>],
    [nested |-> TRUE, steps |-> <<"insert">>],
    [nested |-> TRUE, steps |-> <<"insert", "insert">>],
    [nested |-> TRUE, steps |-> <<"insert", "throw">>] }

\* begin, set_current_user, begin, two inserts, commit, commit, and the
\* rollbacks of the two catches
UnitFailPoints == 1..9

Failures ==
  {NoFailure, [at |-> ConnectFails, lost |-> FALSE]}
    \cup [at : UnitFailPoints, lost : BOOLEAN]

UnitRequests ==
  [op : {"withUser"}, user : {"uMgr", "uEd"}, cb : Callbacks, f : Failures,
   local : BOOLEAN]

MeRequests ==
  [op : {"me"}, user : {"uMgr", "uEd"},
   cb : {[nested |-> FALSE, steps |-> <<>>]},
   f : {NoFailure, [at |-> 3, lost |-> FALSE]}, local : BOOLEAN]

\* the client the pool hands out: the session the last request left
IdleClient == out.conn

AnswerUnit(q, u) ==
  /\ bank_transactions' = u.conn.durable.tx
  /\ next_id' = u.conn.durable.next
  /\ arg' = q
  /\ out' = u
  /\ UNCHANGED <<transaction_allocations, facturas, payments, liquidaciones,
                 liquidacion_lines, next_ent, res>>

InitUnit ==
  /\ bank_transactions = {}
  /\ transaction_allocations = <<>>
  /\ next_id = 1
  /\ facturas = {}
  /\ payments = {}
  /\ liquidaciones = {}
  /\ liquidacion_lines = {}
  /\ next_ent = 1
  /\ res = NoResp
  /\ arg = <<>>
  /\ out = PoolClient(Connect(EmptyDb))

\* a call of withUser by a handler, while the store has room
WithUserReq ==
  /\ next_id <= MaxTx
  /\ \E q \in UnitRequests :
       AnswerUnit(q, withUserSteps(IdleClient, q.user, q.f, q.local, q.cb))

\* GET /me
MeReq ==
  \E q \in MeRequests : AnswerUnit(q, withConn(IdleClient, q.f, q.local))

NextUnit == WithUserReq \/ MeReq

SpecUnit == InitUnit /\ [][NextUnit]_vars

(***************************************************************************)
(* Properties of the units of work (SpecUnit)                              *)
(***************************************************************************)
\* a statement of the kind was sent by the run
Sent(u, kind) == \E i \in 1..Len(u.log) : u.log[i].stmt = kind

\* the commit rule of a unit: the store changes only when the callback
\* resolved; when begin, set_current_user or the callback fails a rollback
\* is sent, no block stays open and nothing of the unit is stored; the
\* client is released once when pool.connect() gave one
CommitsOnlyOnSuccess ==
  arg'.op = "withUser"
    => /\ bank_transactions' # bank_transactions => out'.resolved
       /\ (out'.first # NoErr /\ ~out'.resolved /\ arg'.f.at # ConnectFails)
            => /\ bank_transactions' = bank_transactions
               /\ next_id' = next_id
               /\ Sent(out', "rollback")
               /\ ~out'.conn.inTx
       /\ out'.released = IF arg'.f.at = ConnectFails THEN 0 ELSE 1

\* the error that leaves the unit is the first error raised in it
OriginalErrorRethrown ==
  (arg'.op = "withUser" /\ out'.first # NoErr) => out'.err = out'.first

\* C22: for every call of withUser, with or without a nested begin and
\* commit in the callback: the work is committed only if the callback
\* resolved, every failure of begin, set_current_user or the callback leads
\* to a rollback and never to a commit, the original error is rethrown, and
\* the client is released exactly once.
C22_WithUserContract ==
  [][ CommitsOnlyOnSuccess /\ OriginalErrorRethrown ]_vars

\* the selects on app.v_effective_fund_access that the last request sent
AccessQueries(u) ==
  { i \in 1..Len(u.log) : u.log[i].stmt = "v_effective_fund_access" }

\* C21: every query on app.v_effective_fund_access sent while serving a
\* request runs on a connection whose marker was set to the request's user
\* earlier in the block that is still open; none runs with the marker unset
\* or left by an earlier request.
C21_AccessQueriesUnderOwnMarker ==
  arg # <<>>
    => \A i \in AccessQueries(out) :
         out.log[i].marker = arg.user /\ out.log[i].marked

(***************************************************************************)
(* Two concurrent PATCH /transactions/:id on the same transaction, each    *)
(* on its own pooled connection, statement by statement                    *)
(* (src/routes/transactions.ts, src/db.ts).  The store runs each block at  *)
(* its default isolation (read committed): a statement sees the committed  *)
(* rows and the rows of its own block; an update locks the row until the   *)
(* block ends and a second update of the row waits for it.  The state of   *)
(* the two requests is kept in out: the position of each (pc), the holder  *)
(* of the lock on the transaction row, the allocation rows each has        *)
(* deleted and inserted in its open block, the committed rows with the     *)
(* request that wrote them (0: before both), and the order of the commits. *)
(***************************************************************************)
Sessions == {1, 2}

ConcTx == 1

\* bodies that replace the allocation set: the shortcut to fA, to fB, and a
\* split over both
ConcBodies ==
  { Body(NoBase, ShortcutPart("fA")), Body(NoBase, ShortcutPart("fB")),
    Body(NoBase, SplitPart) }

ConcRequests == [user : {"uMgr", "uEd"}, body : ConcBodies]

\* an update that does not wait for the lock on the row
RowLockFree_NoLock(holder, p) == TRUE

\* update app.bank_transactions ... where id = $1: the row is free, or held
\* by the block itself
RowLockFree(holder, p) == holder \in {0, p}

\* the allocation row a request writes
ConcRow(a, p) ==
  [transaction_id |-> ConcTx, fund_id |-> a.fund_id, ratio |-> a.ratio, by |-> p]

RECURSIVE StoredRows(_)
\* the rows of app.transaction_allocations as the store keeps them
StoredRows(rows) ==
  IF rows = <<>> THEN <<>>
  ELSE Append(StoredRows(SubSeq(rows, 1, Len(rows) - 1)),
              [transaction_id |-> rows[Len(rows)].transaction_id,
               fund_id |-> rows[Len(rows)].fund_id,
               ratio |-> rows[Len(rows)].ratio])

InitConc ==
  /\ bank_transactions = {[id |-> ConcTx, amount |-> Dec(1), type |-> "credit"]}
  /\ transaction_allocations =
       <<[transaction_id |-> ConcTx, fund_id |-> "fB", ratio |-> ONE]>>
  /\ next_id = ConcTx + 1
  /\ facturas = {}
  /\ payments = {}
  /\ liquidaciones = {}
  /\ liquidacion_lines = {}
  /\ next_ent = 1
  /\ res = NoResp
  /\ arg \in [Sessions -> ConcRequests]
  /\ out = [pc |-> [p \in Sessions |-> "idle"],
            lock |-> 0,
            del |-> [p \in Sessions |-> {}],
            ins |-> [p \in Sessions |-> <<>>],
            rows |-> <<[transaction_id |-> ConcTx, fund_id |-> "fB",
                        ratio |-> ONE, by |-> 0]>>,
            order |-> <<>>]

ConcStep(o) ==
  /\ out' = o
  /\ transaction_allocations' = StoredRows(o.rows)
  /\ UNCHANGED <<bank_transactions, next_id, facturas, payments, liquidaciones,
                 liquidacion_lines, next_ent, res, arg>>

\* withUser: pool.connect(), begin, select app.set_current_user($1)
ConcBegin ==
  \E p \in Sessions :
    /\ out.pc[p] = "idle"
    /\ ConcStep([out EXCEPT !.pc[p] = "begun"])

\* assertWriteForFunds on the funds of the new set; a refusal is thrown,
\* withUser rolls back and the request is answered 403
ConcGate ==
  \E p \in Sessions :
    /\ out.pc[p] = "begun"
    /\ ConcStep([out EXCEPT !.pc[p] =
         IF assertWriteForFunds(Run(Connect(TheDb)), arg[p].user,
                                FundIdsOf(NewAlloc(arg[p].body)), 0).err = 0
         THEN "gated" ELSE "refused"])

\* update app.bank_transactions set ... where id = $1: waits while the
\* other block holds the row, then holds it to the end of its block; the
\* body has no base field, so the row keeps its values (coalesce)
ConcUpdate ==
  \E p \in Sessions :
    /\ out.pc[p] = "gated"
    /\ RowLockFree(out.lock, p)
    /\ bank_transactions = UpdateTx(TheDb, ConcTx, arg[p].body).tx
    /\ ConcStep([out EXCEPT !.pc[p] = "updated", !.lock = p])

\* delete from app.transaction_allocations where transaction_id = $1: the
\* committed rows of the transaction
ConcDelete ==
  \E p \in Sessions :
    /\ out.pc[p] = "updated"
    /\ ConcStep([out EXCEPT
         !.pc[p] = "deleted",
         !.del[p] = { out.rows[i] : i \in { k \in 1..Len(out.rows) :
                                             out.rows[k].transaction_id = ConcTx } }])

\* insert into app.transaction_allocations: the next row of the new set
ConcInsert ==
  \E p \in Sessions :
    /\ out.pc[p] = "deleted"
    /\ Len(out.ins[p]) < Len(NewAlloc(arg[p].body))
    /\ ConcStep([out EXCEPT
         !.ins[p] = Append(@, ConcRow(NewAlloc(arg[p].body)[Len(@) + 1], p))])

\* commit: the deletes and the inserts of the block become the committed
\* rows and the lock is released
ConcCommit ==
  \E p \in Sessions :
    /\ out.pc[p] = "deleted"
    /\ Len(out.ins[p]) = Len(NewAlloc(arg[p].body))
    /\ ConcStep([out EXCEPT
         !.pc[p] = "done",
         !.rows = SelectSeq(out.rows, LAMBDA r : r \notin out.del[p]) \o out.ins[p],
         !.lock = IF @ = p THEN 0 ELSE @,
         !.order = Append(@, p)])

NextConc ==
  ConcBegin \/ ConcGate \/ ConcUpdate \/ ConcDelete \/ ConcInsert \/ ConcCommit

SpecConc == InitConc /\ [][NextConc]_vars

(***************************************************************************)
(* Properties of concurrent replacements (SpecConc)                        *)
(***************************************************************************)
\* the rows a request asks for, as the store keeps them
RequestedRows(q) ==
  [i \in 1..Len(NewAlloc(q.body)) |->
     [transaction_id |-> ConcTx, fund_id |-> NewAlloc(q.body)[i].fund_id,
      ratio |-> NewAlloc(q.body)[i].ratio]]

BothCommitted == \A p \in Sessions : out.pc[p] = "done"

\* C26: after two concurrent PATCH requests with new allocation sets for
\* the same transaction have both committed, the allocation rows of the
\* transaction are exactly the set of one of the two requests, never rows
\* of both, and their ratios sum to 1.
C26_NoMixedAllocationSet ==
  BothCommitted
    => /\ \E p \in Sessions :
            /\ transaction_allocations = RequestedRows(arg[p])
            /\ \A i \in 1..Len(out.rows) : out.rows[i].by = p
       /\ SumRatios(transaction_allocations) = ONE

\* both requests committed, the first with the shortcut to fA and the
\* second with a split; the rows are those of the second
C26_Witness ==
  /\ BothCommitted
  /\ out.order = <<1, 2>>
  /\ arg[1].body = Body(NoBase, ShortcutPart("fA"))
  /\ arg[2].body = Body(NoBase, SplitPart)
  /\ Len(transaction_allocations) = 2

====
